---- MODULE Spec2Model ----
(***************************************************************************)
(* Propagation of utility (DDL) commands to the shards of distributed      *)
(* tables: src/backend/distributed/executor/utility_hook.c and             *)
(* src/backend/distributed/commands/tablecmds.c.                           *)
(*                                                                         *)
(* Four specifications share this module:                                  *)
(*   SpecTasks  the task list builders applied to a catalog drawn from     *)
(*              bounded sets (DDLTaskList, InterShardDDLTaskList);         *)
(*   SpecLock   concurrent sessions running                                *)
(*              AcquireDistributedLockOnRelations;                         *)
(*   SpecPlan   PlanAlterTableStmt applied to every ALTER TABLE statement  *)
(*              within the bounds;                                         *)
(*   Spec       one session running multi_ProcessUtility on a statement.   *)
(***************************************************************************)
EXTENDS Integers, Sequences, FiniteSets, TLC

VARIABLES
    (* distribution metadata *)
    pgDistPartition,    \* distributed relation oid -> partition method
    pgDistShard,        \* distributed relation oid -> list of shard ids
    pgDistPlacement,    \* shard id -> list of placements [nodeId, shardState]
    (* SpecTasks *)
    taskCall,           \* the task list builder that was called, with its arguments
    taskList,           \* the list it returned
    (* SpecBuild *)
    builder,            \* the task list builder that is running, step by step
    shardLocks,         \* shard metadata locks held: [holder, shardId, mode]
    builderCalls,       \* the calls the builder has made so far, in order
    (* SpecLock *)
    syncedRelations,    \* relations whose metadata is mirrored to the workers
    sessState,          \* session -> "idle" | "locking" | "ended"
    sessGroup,          \* session -> group id of the node the session runs on
    sessRelList,        \* session -> relationIdList passed to the lock step
    sessPlan,           \* session -> lock actions of the call, in the order it issues them
    sessPos,            \* session -> number of lock actions already granted
    heldLocks,          \* <<session, relation id, group id>> relation locks held
    (* session and transaction state *)
    inTransactionBlock,             \* IsTransactionBlock()
    parallelQueryExecuted,          \* ParallelQueryExecutedInTransaction()
    MultiShardConnectionType,       \* citus.multi_shard_modify_mode
    shouldInvalidateForeignKeyGraph,
    (* SpecPlan *)
    planStmt,           \* the statement PlanAlterTableStmt was called with
    planResult,         \* what the call returned or raised
    (* Spec: one utility statement going through multi_ProcessUtility *)
    EnableDDLPropagation,           \* citus.enable_ddl_propagation
    isCoordinator,                  \* the local node is the coordinator
    MultiShardCommitProtocol,
    SavedMultiShardCommitProtocol,
    pc,                 \* position inside multi_ProcessUtility
    parsetree,          \* the statement
    ddlJobs,            \* the jobs planned for it
    currentJob,         \* index of the job ExecuteDistributedDDLJob is running, or 0
    pgIndexCommitted,   \* the new index in pg_index as committed: absent, invalid, valid
    pgIndexUncommitted, \* the value written by the open transaction, or none
    xactCount,          \* number of the open local transaction
    executedTasks,      \* <<job index, task id>> of the tasks that succeeded
    metadataSent,       \* the metadata commands of the job reached the workers
    commandError,       \* the error the command raised, or none
    history,            \* the steps taken so far, in order
    (* SpecCall: CALL statements going through multi_ProcessUtility *)
    StoredProcedureLevel,
    callStack,          \* the CALL statements being processed, the innermost last
    unwinding,          \* an error is on its way up the stack
    callLog             \* the CALL statements processed so far

catalogVars == <<pgDistPartition, pgDistShard, pgDistPlacement>>
buildVars == <<builder, shardLocks, builderCalls>>
taskVars == <<taskCall, taskList, buildVars>>

lockVars == <<syncedRelations, sessState, sessGroup, sessRelList, sessPlan, sessPos, heldLocks>>

sessionVars == <<inTransactionBlock, parallelQueryExecuted, MultiShardConnectionType,
                 shouldInvalidateForeignKeyGraph>>
planVars == <<planStmt, planResult>>

callVars == <<StoredProcedureLevel, callStack, unwinding, callLog>>
commandVars == <<EnableDDLPropagation, isCoordinator, MultiShardCommitProtocol,
                 SavedMultiShardCommitProtocol, pc, parsetree, ddlJobs, currentJob,
                 pgIndexCommitted,
                 pgIndexUncommitted, xactCount, executedTasks, metadataSent,
                 commandError, history>>
utilityVars == <<commandVars, callVars>>

vars == <<catalogVars, taskVars, lockVars, sessionVars, planVars, utilityVars>>

\* what no step of multi_ProcessUtility changes
utilityEnv == <<catalogVars, taskVars, lockVars, planVars, callVars, inTransactionBlock,
                parallelQueryExecuted, EnableDDLPropagation, isCoordinator>>
sessionFlags == <<MultiShardConnectionType, shouldInvalidateForeignKeyGraph>>
commitProtocol == <<MultiShardCommitProtocol, SavedMultiShardCommitProtocol>>

(***************************************************************************)
(* Each specification below drives one part of the state and leaves the    *)
(* other parts at these idle values.                                       *)
(***************************************************************************)
BuildIdle ==
    /\ builder = [fn |-> "none"]
    /\ shardLocks = {}
    /\ builderCalls = << >>

TasksIdle ==
    /\ taskCall = [fn |-> "none"]
    /\ taskList = << >>
    /\ BuildIdle

LockIdle ==
    /\ syncedRelations = {}
    /\ sessState = << >>
    /\ sessGroup = << >>
    /\ sessRelList = << >>
    /\ sessPlan = << >>
    /\ sessPos = << >>
    /\ heldLocks = {}

SessionIdle ==
    /\ inTransactionBlock = FALSE
    /\ parallelQueryExecuted = FALSE
    /\ MultiShardConnectionType = "PARALLEL_CONNECTION"
    /\ shouldInvalidateForeignKeyGraph = FALSE

PlanIdle ==
    /\ planStmt = [type |-> "none"]
    /\ planResult = [type |-> "none"]

CallIdle ==
    /\ StoredProcedureLevel = 0
    /\ callStack = << >>
    /\ unwinding = FALSE
    /\ callLog = << >>

UtilityIdle ==
    /\ CallIdle
    /\ EnableDDLPropagation = TRUE
    /\ isCoordinator = TRUE
    /\ MultiShardCommitProtocol = "COMMIT_PROTOCOL_1PC"
    /\ SavedMultiShardCommitProtocol = "COMMIT_PROTOCOL_BARE"
    /\ pc = "idle"
    /\ parsetree = [type |-> "none"]
    /\ ddlJobs = << >>
    /\ currentJob = 0
    /\ pgIndexCommitted = "absent"
    /\ pgIndexUncommitted = "none"
    /\ xactCount = 1
    /\ executedTasks = {}
    /\ metadataSent = FALSE
    /\ commandError = "none"
    /\ history = << >>

(***************************************************************************)
(* Bounds of the model.                                                    *)
(***************************************************************************)
MaxShards == 3      \* shards per distributed relation
NumWorkers == 2     \* worker nodes holding placements
NumSessions == 2    \* concurrent sessions taking distributed locks
MaxCmds == 2        \* sub-commands of an ALTER TABLE statement
MaxRels == 2        \* tables named by a VACUUM or ANALYZE statement

(***************************************************************************)
(* Program constants.                                                      *)
(***************************************************************************)
InvalidOid == 0
INVALID_JOB_ID == 0
DISTRIBUTE_BY_HASH == "h"
DISTRIBUTE_BY_APPEND == "a"
DISTRIBUTE_BY_NONE == "n"
FILE_FINALIZED == "FILE_FINALIZED"
FILE_INACTIVE == "FILE_INACTIVE"
DDL_TASK == "DDL_TASK"
NIL == << >>
PARALLEL_CONNECTION == "PARALLEL_CONNECTION"
SEQUENTIAL_CONNECTION == "SEQUENTIAL_CONNECTION"

Min(a, b) == IF a < b THEN a ELSE b

RECURSIVE SeqOfSet(_)
SeqOfSet(S) ==
    IF S = {} THEN << >>
    ELSE LET x == CHOOSE y \in S : \A z \in S : y <= z
         IN <<x>> \o SeqOfSet(S \ {x})

(***************************************************************************)
(* Metadata accessors.                                                     *)
(***************************************************************************)
IsDistributedTable(relationId) == relationId \in DOMAIN pgDistPartition

PartitionMethod(relationId) == pgDistPartition[relationId]

LoadShardIntervalList(relationId) == pgDistShard[relationId]

\* the placements of the shard that are in the finalized state, in catalog order
FinalizedShardPlacementList(shardId) ==
    SelectSeq(pgDistPlacement[shardId], LAMBDA p : p.shardState = FILE_FINALIZED)

\* the name of the schema, NULL for a schema that has been dropped
get_namespace_name(namespaceId) ==
    IF namespaceId = 3 THEN "NULL" ELSE IF namespaceId = 2 THEN "Sales" ELSE "public"

quote_literal_cstr(s) == "'" \o s \o "'"

(***************************************************************************)
(* DDLTaskList: one task per shard interval of the relation.               *)
(***************************************************************************)
RECURSIVE DDLTaskLoop(_, _, _, _, _)
DDLTaskLoop(shardIntervalList, i, taskId, commandString, acc) ==
    IF i > Len(shardIntervalList) THEN acc
    ELSE LET shardId == shardIntervalList[i]
             task == [jobId |-> INVALID_JOB_ID,
                      taskId |-> taskId,
                      taskType |-> DDL_TASK,
                      queryString |-> <<"worker_apply_shard_ddl_command", shardId,
                                        quote_literal_cstr(get_namespace_name(0)),
                                        quote_literal_cstr(commandString)>>,
                      anchorShardId |-> shardId,
                      taskPlacementList |-> FinalizedShardPlacementList(shardId),
                      relationShardList |-> NIL]
         IN DDLTaskLoop(shardIntervalList, i + 1, taskId + 1, commandString,
                        Append(acc, task))

\* mutant: the task ids are counted from zero
DDLTaskList_IdsFromZero(relationId, commandString) ==
    DDLTaskLoop(LoadShardIntervalList(relationId), 1, 0, commandString, NIL)

\* mutant: the loop stops one shard early
DDLTaskList_SkipLast(relationId, commandString) ==
    LET shardIntervalList == LoadShardIntervalList(relationId)
    IN DDLTaskLoop(SubSeq(shardIntervalList, 1, Len(shardIntervalList) - 1), 1, 1,
                   commandString, NIL)

DDLTaskList(relationId, commandString) ==
    DDLTaskLoop(LoadShardIntervalList(relationId), 1, 1, commandString, NIL)

(***************************************************************************)
(* InterShardDDLTaskList: the left and right shard lists are walked in     *)
(* step (forboth stops at the end of the shorter list); the single shard   *)
(* of a reference table on the right is repeated for every left shard.     *)
(***************************************************************************)
RECURSIVE RepeatRightShard(_, _, _, _)
RepeatRightShard(rightShardList, rightShardInterval, shardCounter, leftShardCount) ==
    IF shardCounter < leftShardCount
    THEN RepeatRightShard(Append(rightShardList, rightShardInterval),
                          rightShardInterval, shardCounter + 1, leftShardCount)
    ELSE rightShardList

\* mutant: the reference shard is not repeated
ExtendedRightShardList_NoRepeat(leftRelationId, rightRelationId) ==
    LoadShardIntervalList(rightRelationId)

ExtendedRightShardList(leftRelationId, rightRelationId) ==
    LET rightShardList == LoadShardIntervalList(rightRelationId)
        leftShardCount == Len(LoadShardIntervalList(leftRelationId))
    IN IF PartitionMethod(rightRelationId) = DISTRIBUTE_BY_NONE
       THEN RepeatRightShard(rightShardList, Head(rightShardList),
                             Len(rightShardList), leftShardCount)
       ELSE rightShardList

RECURSIVE InterShardTaskLoop(_, _, _, _, _, _, _, _)
InterShardTaskLoop(leftRelationId, rightRelationId, leftShardList, rightShardList, i, taskId, commandString, acc) ==
    IF i > Len(leftShardList) \/ i > Len(rightShardList) THEN acc
    ELSE LET leftShardId == leftShardList[i]
             rightShardId == rightShardList[i]
             task == [jobId |-> INVALID_JOB_ID,
                      taskId |-> taskId,
                      taskType |-> DDL_TASK,
                      queryString |-> <<"worker_apply_inter_shard_ddl_command",
                                        leftShardId,
                                        quote_literal_cstr(get_namespace_name(0)),
                                        rightShardId,
                                        quote_literal_cstr(get_namespace_name(0)),
                                        quote_literal_cstr(commandString)>>,
                      anchorShardId |-> leftShardId,
                      taskPlacementList |-> FinalizedShardPlacementList(leftShardId),
                      relationShardList |->
                          << [relationId |-> leftRelationId, shardId |-> leftShardId],
                             [relationId |-> rightRelationId, shardId |-> rightShardId] >>]
         IN InterShardTaskLoop(leftRelationId, rightRelationId, leftShardList,
                               rightShardList, i + 1, taskId + 1, commandString,
                               Append(acc, task))

\* mutant: the walk over the two lists starts at their second cells
InterShardDDLTaskList_FromSecondCell(leftRelationId, rightRelationId, commandString) ==
    InterShardTaskLoop(leftRelationId, rightRelationId,
                       LoadShardIntervalList(leftRelationId),
                       ExtendedRightShardList(leftRelationId, rightRelationId),
                       2, 1, commandString, NIL)

InterShardDDLTaskList(leftRelationId, rightRelationId, commandString) ==
    InterShardTaskLoop(leftRelationId, rightRelationId,
                       LoadShardIntervalList(leftRelationId),
                       ExtendedRightShardList(leftRelationId, rightRelationId),
                       1, 1, commandString, NIL)

(***************************************************************************)
(* SpecTasks: the builders applied to every catalog within the bounds.     *)
(* Relation 1 is hash or append distributed; relation 2 is a reference     *)
(* table (one shard) or hash distributed.  Every shard has a placement on  *)
(* every worker, at least one of them finalized.                           *)
(***************************************************************************)
TaskRelations == {1, 2}

WorkerIds == 1..NumWorkers

ShardIdsOf(relationId, n) == [i \in 1..n |-> relationId * 100 + i]

ShardCounts(method) ==
    IF method = DISTRIBUTE_BY_NONE THEN {1}
    ELSE IF method = DISTRIBUTE_BY_APPEND THEN 0..MaxShards
    ELSE 1..MaxShards

PlacementLists ==
    { [n \in WorkerIds |-> [nodeId |-> n, shardState |-> st[n]]] :
        st \in { f \in [WorkerIds -> {FILE_FINALIZED, FILE_INACTIVE}] :
                    \E n \in WorkerIds : f[n] = FILE_FINALIZED } }

AllFinalized == [n \in WorkerIds |-> [nodeId |-> n, shardState |-> FILE_FINALIZED]]

TaskCommand == "ALTER TABLE t ADD COLUMN c int"

InitTasks ==
    /\ LockIdle
    /\ SessionIdle
    /\ PlanIdle
    /\ UtilityIdle
    /\ \E leftMethod \in {DISTRIBUTE_BY_HASH, DISTRIBUTE_BY_APPEND},
          rightMethod \in {DISTRIBUTE_BY_NONE, DISTRIBUTE_BY_HASH} :
        /\ pgDistPartition = (1 :> leftMethod) @@ (2 :> rightMethod)
        /\ \E nl \in ShardCounts(leftMethod), nr \in ShardCounts(rightMethod) :
            /\ pgDistShard = (1 :> ShardIdsOf(1, nl)) @@ (2 :> ShardIdsOf(2, nr))
            /\ \E leftPlacements \in [{ShardIdsOf(1, nl)[i] : i \in 1..nl} -> PlacementLists] :
                 pgDistPlacement =
                     leftPlacements @@
                     [s \in {ShardIdsOf(2, nr)[i] : i \in 1..nr} |-> AllFinalized]
    /\ taskCall = [fn |-> "none"]
    /\ taskList = NIL
    /\ BuildIdle

CallDDLTaskList ==
    /\ taskCall.fn = "none"
    /\ \E relationId \in TaskRelations :
        /\ taskCall' = [fn |-> "DDLTaskList", relationId |-> relationId]
        /\ taskList' = DDLTaskList(relationId, TaskCommand)
    /\ UNCHANGED <<catalogVars, buildVars, lockVars, sessionVars, planVars, utilityVars>>

CallInterShardDDLTaskList ==
    /\ taskCall.fn = "none"
    /\ \E leftRelationId \in TaskRelations, rightRelationId \in TaskRelations :
        /\ leftRelationId # rightRelationId
        /\ taskCall' = [fn |-> "InterShardDDLTaskList",
                        leftRelationId |-> leftRelationId,
                        rightRelationId |-> rightRelationId]
        /\ taskList' = InterShardDDLTaskList(leftRelationId, rightRelationId, TaskCommand)
    /\ UNCHANGED <<catalogVars, buildVars, lockVars, sessionVars, planVars, utilityVars>>

NextTasks ==
    \/ CallDDLTaskList
    \/ CallInterShardDDLTaskList

SpecTasks == InitTasks /\ [][NextTasks]_vars

(***************************************************************************)
(* C1: for every distributed relation with N shards DDLTaskList returns    *)
(* exactly N tasks, each shard of the relation is the anchor shard of      *)
(* exactly one task, and every task carries a non-empty placement list.    *)
(***************************************************************************)
C1_OneTaskPerShard ==
    taskCall.fn = "DDLTaskList" =>
        LET shardList == pgDistShard[taskCall.relationId]
        IN /\ Len(taskList) = Len(shardList)
           /\ \A i \in 1..Len(shardList) :
                Cardinality({k \in 1..Len(taskList) :
                                taskList[k].anchorShardId = shardList[i]}) = 1
           /\ \A k \in 1..Len(taskList) : taskList[k].taskPlacementList # << >>

C1_Witness ==
    /\ taskCall.fn = "DDLTaskList"
    /\ Len(pgDistShard[taskCall.relationId]) = MaxShards
    /\ Len(taskList) = MaxShards
    /\ \E k \in 1..Len(taskList) :
         Len(taskList[k].taskPlacementList) < Len(pgDistPlacement[taskList[k].anchorShardId])

(***************************************************************************)
(* C2: when the right relation is a reference table, InterShardDDLTaskList *)
(* returns as many tasks as the left relation has shards and the right     *)
(* shard of every task is the single shard of the reference table.         *)
(***************************************************************************)
C2_ReferenceShardBroadcast ==
    (taskCall.fn = "InterShardDDLTaskList"
        /\ pgDistPartition[taskCall.rightRelationId] = DISTRIBUTE_BY_NONE) =>
        /\ Len(taskList) = Len(pgDistShard[taskCall.leftRelationId])
        /\ \A k \in 1..Len(taskList) :
             taskList[k].relationShardList[2].shardId =
                 pgDistShard[taskCall.rightRelationId][1]

C2_Witness ==
    /\ taskCall.fn = "InterShardDDLTaskList"
    /\ pgDistPartition[taskCall.rightRelationId] = DISTRIBUTE_BY_NONE
    /\ Len(pgDistShard[taskCall.leftRelationId]) = MaxShards
    /\ Len(taskList) = MaxShards

(***************************************************************************)
(* Distributed lock orderer (tablecmds.c).                                 *)
(***************************************************************************)
Perms(S) == { f \in [1..Cardinality(S) -> S] : \A i, j \in DOMAIN f : f[i] = f[j] => i = j }

\* a comparator is the set of the pairs <<left, right>> it orders left before right
RECURSIVE InsertSorted(_, _, _)
InsertSorted(sorted, x, comparator) ==
    IF sorted = << >> THEN <<x>>
    ELSE IF <<x, Head(sorted)>> \in comparator THEN <<x>> \o sorted
    ELSE <<Head(sorted)>> \o InsertSorted(Tail(sorted), x, comparator)

\* SortList: the elements of the list in ascending order of the comparator
RECURSIVE SortList(_, _)
SortList(list, comparator) ==
    IF list = << >> THEN << >>
    ELSE InsertSorted(SortList(Tail(list), comparator), Head(list), comparator)

CompareOids(list) ==
    { p \in {list[i] : i \in DOMAIN list} \X {list[i] : i \in DOMAIN list} : p[1] < p[2] }

\* worker nodes are ordered by group id, then by address
WorkerNodeBefore(left, right) ==
    \/ left.groupId < right.groupId
    \/ /\ left.groupId = right.groupId
       /\ left.workerPort < right.workerPort

CompareWorkerNodes(list) ==
    { p \in {list[i] : i \in DOMAIN list} \X {list[i] : i \in DOMAIN list} :
        WorkerNodeBefore(p[1], p[2]) }

ShouldSyncTableMetadata(relationId) == relationId \in syncedRelations

LockRelationCommand(relationId, lockModeText) ==
    <<"SELECT lock_relation_if_exists(", relationId, lockModeText, ")">>

\* mutant: the lock command is sent to the local node as well
RECURSIVE LockWorkerLoop_AlwaysRemote(_, _, _, _)
LockWorkerLoop_AlwaysRemote(relationId, workerNodeList, localGroupId, acc) ==
    IF workerNodeList = << >> THEN acc
    ELSE LockWorkerLoop_AlwaysRemote(
             relationId, Tail(workerNodeList), localGroupId,
             Append(acc, [kind |-> "SendCommandToWorker", relationId |-> relationId,
                          node |-> Head(workerNodeList),
                          command |-> LockRelationCommand(relationId, "ACCESS EXCLUSIVE")]))

RECURSIVE LockWorkerLoop(_, _, _, _)
LockWorkerLoop(relationId, workerNodeList, localGroupId, acc) ==
    IF workerNodeList = << >> THEN acc
    ELSE LET workerNode == Head(workerNodeList)
             action == IF workerNode.groupId = localGroupId
                       THEN [kind |-> "LockRelationOid", relationId |-> relationId,
                             node |-> workerNode, command |-> << >>]
                       ELSE [kind |-> "SendCommandToWorker", relationId |-> relationId,
                             node |-> workerNode,
                             command |-> LockRelationCommand(relationId, "ACCESS EXCLUSIVE")]
         IN LockWorkerLoop(relationId, Tail(workerNodeList), localGroupId,
                           Append(acc, action))

RECURSIVE LockRelationLoop(_, _, _, _)
LockRelationLoop(relationIdList, workerNodeList, localGroupId, acc) ==
    IF relationIdList = << >> THEN acc
    ELSE LET relationId == Head(relationIdList)
         IN LockRelationLoop(Tail(relationIdList), workerNodeList, localGroupId,
                IF ShouldSyncTableMetadata(relationId)
                THEN LockWorkerLoop(relationId, workerNodeList, localGroupId, acc)
                ELSE acc)

\* mutant: the worker node list is used in the order the node list returned it
AcquireDistributedLockOnRelations_UnsortedWorkers(relationIdList, workerNodeList, localGroupId) ==
    LockRelationLoop(SortList(relationIdList, CompareOids(relationIdList)), workerNodeList,
                     localGroupId, << >>)

\* mutant: the relation id list is used in the order the caller gave it
AcquireDistributedLockOnRelations_UnsortedRelations(relationIdList, workerNodeList, localGroupId) ==
    LockRelationLoop(relationIdList, SortList(workerNodeList, CompareWorkerNodes(workerNodeList)),
                     localGroupId, << >>)

\* mutant: the relation id list is sorted in descending order
AcquireDistributedLockOnRelations_Descending(relationIdList, workerNodeList, localGroupId) ==
    LockRelationLoop(SortList(relationIdList, {<<p[2], p[1]>> : p \in CompareOids(relationIdList)}),
                     SortList(workerNodeList, CompareWorkerNodes(workerNodeList)), localGroupId, << >>)

\* the lock actions of one call, in the order they are issued
AcquireDistributedLockOnRelations(relationIdList, workerNodeList, localGroupId) ==
    LockRelationLoop(SortList(relationIdList, CompareOids(relationIdList)),
                     SortList(workerNodeList, CompareWorkerNodes(workerNodeList)),
                     localGroupId, << >>)

(***************************************************************************)
(* SpecLock: sessions on the coordinator (group 0) or on a worker call     *)
(* AcquireDistributedLockOnRelations with a relation list and a worker     *)
(* list in any order.  A lock action waits until no other session holds    *)
(* the lock of that relation on that node; locks are released when the     *)
(* session's transaction ends.                                             *)
(***************************************************************************)
Sessions == 1..NumSessions

LockRelations == {16385, 16390}

LockWorkerNodes ==
    { [groupId |-> 1, workerName |-> "worker-b", workerPort |-> 5432],
      [groupId |-> 2, workerName |-> "worker-a", workerPort |-> 5433] }

LockGroups == {0} \cup {w.groupId : w \in LockWorkerNodes}

RelationIdLists == UNION { Perms(S) : S \in SUBSET LockRelations \ {{}} }

Range(list) == { list[i] : i \in DOMAIN list }

InitLock ==
    /\ pgDistPartition = [r \in LockRelations |-> DISTRIBUTE_BY_HASH]
    /\ pgDistShard = [r \in LockRelations |-> << >>]
    /\ pgDistPlacement = << >>
    /\ TasksIdle
    /\ SessionIdle
    /\ PlanIdle
    /\ UtilityIdle
    /\ syncedRelations \in { LockRelations, {16390} }
    /\ sessState = [s \in Sessions |-> "idle"]
    /\ sessGroup = [s \in Sessions |-> 0]
    /\ sessRelList = [s \in Sessions |-> << >>]
    /\ sessPlan = [s \in Sessions |-> << >>]
    /\ sessPos = [s \in Sessions |-> 0]
    /\ heldLocks = {}

\* the session enters AcquireDistributedLockOnRelations
StartLocking(s) ==
    /\ sessState[s] = "idle"
    /\ \E localGroupId \in LockGroups, relationIdList \in RelationIdLists,
          workerNodeList \in Perms(LockWorkerNodes) :
        /\ sessGroup' = [sessGroup EXCEPT ![s] = localGroupId]
        /\ sessRelList' = [sessRelList EXCEPT ![s] = relationIdList]
        /\ sessPlan' = [sessPlan EXCEPT ![s] =
                AcquireDistributedLockOnRelations(relationIdList, workerNodeList,
                                                  localGroupId)]
    /\ sessState' = [sessState EXCEPT ![s] = "locking"]
    /\ UNCHANGED <<catalogVars, taskVars, sessionVars, planVars, utilityVars, syncedRelations, sessPos, heldLocks>>

NextLockAction(s) == sessPlan[s][sessPos[s] + 1]

LockHolders(action) ==
    { h[1] : h \in { l \in heldLocks : l[2] = action.relationId
                                       /\ l[3] = action.node.groupId } }

\* LockRelationOid or the remote lock_relation_if_exists returns: the lock is granted
AcquireLock(s) ==
    /\ sessState[s] = "locking"
    /\ sessPos[s] < Len(sessPlan[s])
    /\ LockHolders(NextLockAction(s)) \subseteq {s}
    /\ heldLocks' = heldLocks \cup
            {<<s, NextLockAction(s).relationId, NextLockAction(s).node.groupId>>}
    /\ sessPos' = [sessPos EXCEPT ![s] = @ + 1]
    /\ UNCHANGED <<catalogVars, taskVars, sessionVars, planVars, utilityVars, syncedRelations, sessState, sessGroup,
                   sessRelList, sessPlan>>

\* the transaction of the session ends and its locks are released
EndTransaction(s) ==
    /\ sessState[s] = "locking"
    /\ sessPos[s] = Len(sessPlan[s])
    /\ sessState' = [sessState EXCEPT ![s] = "ended"]
    /\ heldLocks' = { l \in heldLocks : l[1] # s }
    /\ UNCHANGED <<catalogVars, taskVars, sessionVars, planVars, utilityVars, syncedRelations, sessGroup, sessRelList,
                   sessPlan, sessPos>>

NextLock ==
    \E s \in Sessions :
        \/ StartLocking(s)
        \/ AcquireLock(s)
        \/ EndTransaction(s)

SpecLock == InitLock /\ [][NextLock]_vars

IssuedLockActions(s) == SubSeq(sessPlan[s], 1, sessPos[s])

LockPairs(actions) == [i \in DOMAIN actions |-> <<actions[i].relationId, actions[i].node>>]

\* session s waits for a lock that session t holds
WaitsFor(s, t) ==
    /\ s # t
    /\ sessState[s] = "locking"
    /\ sessPos[s] < Len(sessPlan[s])
    /\ t \in LockHolders(NextLockAction(s))

(***************************************************************************)
(* C8: no circular wait between sessions is reachable: there is no         *)
(* non-empty set of sessions each of which waits for a relation lock held  *)
(* by another session of the set.                                          *)
(***************************************************************************)
C8_NoDeadlock ==
    \A W \in SUBSET Sessions \ {{}} :
        ~ \A s \in W : \E t \in W : WaitsFor(s, t)

\* two sessions on different nodes with overlapping relation sets contend: each
\* holds locks and one of them waits for a lock the other holds
C8_Witness ==
    \E s, t \in Sessions :
        /\ WaitsFor(s, t)
        /\ sessGroup[s] # sessGroup[t]
        /\ sessRelList[s] = <<16390, 16385>>
        /\ sessRelList[t] = <<16390>>
        /\ sessPos[s] > 0
        /\ sessPos[t] > 0

(***************************************************************************)
(* C9: the sequence of (relation, node) lock requests of a call depends    *)
(* only on the set of relation ids (and the set of worker nodes), not on   *)
(* the order in which they are supplied.                                   *)
(***************************************************************************)
C9_OrderIndependent ==
    \A s, t \in Sessions :
        (sessState[s] # "idle" /\ sessState[t] # "idle"
            /\ Range(sessRelList[s]) = Range(sessRelList[t]))
        => LockPairs(sessPlan[s]) = LockPairs(sessPlan[t])

C9_Witness ==
    \E s, t \in Sessions :
        /\ sessState[s] # "idle" /\ sessState[t] # "idle"
        /\ Range(sessRelList[s]) = Range(sessRelList[t])
        /\ sessRelList[s] # sessRelList[t]
        /\ Len(sessPlan[s]) = 4
        /\ sessPos[s] = 4

(***************************************************************************)
(* C10: within one call the lock actions are issued in lexicographic       *)
(* (relation id, worker node) order.                                       *)
(***************************************************************************)
LexBefore(a, b) ==
    \/ a.relationId < b.relationId
    \/ /\ a.relationId = b.relationId
       /\ \/ a.node.groupId < b.node.groupId
          \/ a.node.groupId = b.node.groupId /\ a.node.workerPort < b.node.workerPort

C10_LexicographicOrder ==
    \A s \in Sessions :
        LET issued == IssuedLockActions(s)
        IN \A i, j \in DOMAIN issued : (i < j) <=> LexBefore(issued[i], issued[j])

C10_Witness ==
    \E s \in Sessions :
        /\ sessRelList[s] = <<16390, 16385>>
        /\ sessPos[s] = 4
        /\ sessGroup[s] = 1

(***************************************************************************)
(* Statements.  An AlterTableStmt names its relation and carries a list of *)
(* AlterTableCmd sub-commands; def is a ColumnDef, a Constraint or a       *)
(* PartitionCmd.                                                           *)
(***************************************************************************)
NULL == "NULL"

NoDef == [kind |-> "none"]
Constraint(contype, conname, pktable) ==
    [kind |-> "Constraint", contype |-> contype, conname |-> conname, pktable |-> pktable]
ColumnDef(typeName, constraints) ==
    [kind |-> "ColumnDef", typeName |-> typeName, constraints |-> constraints]
PartitionCmd(name) == [kind |-> "PartitionCmd", name |-> name]
AlterTableCmd(subtype, name, def) == [subtype |-> subtype, name |-> name, def |-> def]

AlterTableStmt(relation, missing_ok, cmds) ==
    [type |-> "AlterTableStmt", relkind |-> "OBJECT_TABLE", relation |-> relation,
     missing_ok |-> missing_ok, cmds |-> cmds]

(***************************************************************************)
(* The local catalog: relation names, columns and constraints.             *)
(*   orders      hash distributed, partition column dist_col               *)
(*   warehouses  reference table                                           *)
(*   events      append distributed                                        *)
(*   local_t     not distributed                                           *)
(*   items       hash distributed, not colocated with orders               *)
(*   orders_idx  an index of orders                                        *)
(* Every distributed table has the column fk_col in a foreign key to the   *)
(* reference table (constraint fk_to_ref) and a foreign key fk_plain that  *)
(* does not involve a reference table.                                     *)
(***************************************************************************)
PgClass ==
    [orders |-> 1, warehouses |-> 2, events |-> 3, local_t |-> 4, items |-> 5,
     orders_idx |-> 6, archive_ft |-> 7, orders_2019 |-> 8, local_p |-> 9]

RangeVarGetRelid(relation, missingOk) ==
    IF relation \in DOMAIN PgClass THEN [oid |-> PgClass[relation], error |-> "none"]
    ELSE IF missingOk THEN [oid |-> InvalidOid, error |-> "none"]
    ELSE [oid |-> InvalidOid, error |-> "ERR_RELATION_NOT_FOUND"]

AlterTableLookupRelation(stmt) == RangeVarGetRelid(stmt.relation, stmt.missing_ok)

OidIsValid(oid) == oid # InvalidOid

\* the partition column of the relation; reference tables have none
DistPartitionKey(relationId) ==
    IF PartitionMethod(relationId) = DISTRIBUTE_BY_NONE THEN NULL ELSE "dist_col"

TableColumns == {"dist_col", "fk_col", "plain_col"}

ColumnAppearsInForeignKeyToReferenceTable(columnName, relationId) ==
    IsDistributedTable(relationId) /\ columnName = "fk_col"

ConstraintIsAForeignKeyToReferenceTable(constraintName, relationId) ==
    IsDistributedTable(relationId) /\ constraintName = "fk_to_ref"

ConstraintIsAForeignKey(constraintName, relationId) ==
    constraintName \in {"fk_to_ref", "fk_plain"}

ColocationId == (1 :> 1) @@ (2 :> 2) @@ (3 :> 0) @@ (5 :> 3) @@ (7 :> 0) @@ (8 :> 1)

TablesColocated(leftId, rightId) ==
    leftId = rightId \/ (ColocationId[leftId] # 0 /\ ColocationId[leftId] = ColocationId[rightId])

SerialTypes == {"smallserial", "serial2", "serial", "serial4", "bigserial", "serial8"}

(***************************************************************************)
(* AlterInvolvesPartitionColumn                                            *)
(***************************************************************************)
\* mutant: no sub-command is found to involve the partition column
AlterInvolvesPartitionColumn_Never(stmt, command) == FALSE

AlterInvolvesPartitionColumn(stmt, command) ==
    LET relationId == AlterTableLookupRelation(stmt).oid
    IN IF ~OidIsValid(relationId) THEN FALSE
       ELSE /\ command.name \in TableColumns
            /\ DistPartitionKey(relationId) # NULL
            /\ command.name = DistPartitionKey(relationId)

(***************************************************************************)
(* ErrorIfUnsupportedAlterTableStmt.  The result carries the error raised  *)
(* ("none" when the statement is accepted) and whether                     *)
(* MarkInvalidateForeignKeyGraph was called on the way.                    *)
(***************************************************************************)
\* mutant: a sub-command is never found to stand among others
HasOtherSubcommands_Never(stmt) == FALSE

\* commandList->length > 1
HasOtherSubcommands(stmt) == Len(stmt.cmds) > 1

UnsupportedAlterTableCmd(stmt, command) ==
    LET ok == [error |-> "none", markFK |-> FALSE, return |-> FALSE]
        err(e) == [error |-> e, markFK |-> FALSE, return |-> TRUE]
    IN CASE command.subtype = "AT_AddColumn" ->
                IF command.def.kind = "ColumnDef" /\ command.def.typeName \in SerialTypes
                THEN err("ERR_SERIAL_PSEUDOTYPE") ELSE ok
         [] command.subtype \in {"AT_DropColumn", "AT_ColumnDefault",
                                 "AT_AlterColumnType", "AT_DropNotNull"} ->
                IF AlterInvolvesPartitionColumn(stmt, command)
                THEN err("ERR_PARTITION_COLUMN") ELSE ok
         [] command.subtype = "AT_AddConstraint" ->
                IF HasOtherSubcommands(stmt)
                THEN err("ERR_ADD_CONSTRAINT_WITH_OTHER_SUBCOMMANDS")
                ELSE IF command.def.conname = NULL THEN err("ERR_CONSTRAINT_WITHOUT_NAME")
                ELSE ok
         [] command.subtype = "AT_AttachPartition" ->
                LET relationId == AlterTableLookupRelation(stmt).oid
                    partition == RangeVarGetRelid(command.def.name, FALSE)
                IN IF partition.error # "none" THEN err(partition.error)
                   ELSE IF HasOtherSubcommands(stmt)
                   THEN err("ERR_ATTACH_PARTITION_WITH_OTHER_SUBCOMMANDS")
                   ELSE IF IsDistributedTable(partition.oid)
                           /\ ~TablesColocated(relationId, partition.oid)
                   THEN err("ERR_NON_COLOCATED_PARTITION")
                   ELSE ok
         [] command.subtype = "AT_DetachPartition" ->
                IF HasOtherSubcommands(stmt)
                THEN err("ERR_DETACH_PARTITION_WITH_OTHER_SUBCOMMANDS") ELSE ok
         [] command.subtype = "AT_DropConstraint" ->
                LET relationId == AlterTableLookupRelation(stmt).oid
                IN IF ~OidIsValid(relationId)
                   THEN [error |-> "none", markFK |-> FALSE, return |-> TRUE]
                   ELSE [error |-> "none",
                         markFK |-> ConstraintIsAForeignKey(command.name, relationId),
                         return |-> FALSE]
         [] command.subtype \in {"AT_SetNotNull", "AT_EnableTrigAll", "AT_DisableTrigAll",
                                 "AT_ReplicaIdentity", "AT_SetRelOptions",
                                 "AT_ResetRelOptions", "AT_ReplaceRelOptions"} -> ok
         [] OTHER -> err("ERR_UNSUPPORTED_ALTER_TABLE_SUBCOMMAND")

RECURSIVE UnsupportedAlterTableLoop(_, _, _)
UnsupportedAlterTableLoop(stmt, i, markFK) ==
    IF i > Len(stmt.cmds) THEN [error |-> "none", markFK |-> markFK]
    ELSE LET r == UnsupportedAlterTableCmd(stmt, stmt.cmds[i])
         IN IF r.return THEN [error |-> r.error, markFK |-> markFK \/ r.markFK]
            ELSE UnsupportedAlterTableLoop(stmt, i + 1, markFK \/ r.markFK)

ErrorIfUnsupportedAlterTableStmt(stmt) == UnsupportedAlterTableLoop(stmt, 1, FALSE)

(***************************************************************************)
(* SetupExecutionModeForAlterTable                                         *)
(***************************************************************************)
IsReferenceTable(relationId) ==
    IsDistributedTable(relationId) /\ PartitionMethod(relationId) = DISTRIBUTE_BY_NONE

\* the first foreign key among the column constraints whose referenced table cannot
\* be resolved makes RangeVarGetRelid raise
RECURSIVE ColumnConstraintsToReference(_, _)
ColumnConstraintsToReference(constraints, acc) ==
    IF constraints = << >> THEN acc
    ELSE LET constraint == Head(constraints)
         IN IF constraint.contype = "CONSTR_FOREIGN"
            THEN LET right == RangeVarGetRelid(constraint.pktable, FALSE)
                 IN IF right.error # "none"
                    THEN [executeSequentially |-> acc.executeSequentially,
                          error |-> right.error]
                    ELSE ColumnConstraintsToReference(Tail(constraints),
                            [executeSequentially |->
                                 acc.executeSequentially \/ IsReferenceTable(right.oid),
                             error |-> "none"])
            ELSE ColumnConstraintsToReference(Tail(constraints), acc)

\* lines 3031-3103: does the sub-command have to run sequentially
ExecuteSequentiallyDecision(relationId, command) ==
    LET no == [executeSequentially |-> FALSE, error |-> "none"]
        yes == [executeSequentially |-> TRUE, error |-> "none"]
    IN CASE command.subtype = "AT_DropConstraint" ->
                IF ConstraintIsAForeignKeyToReferenceTable(command.name, relationId)
                THEN yes ELSE no
         [] command.subtype = "AT_AddColumn" ->
                ColumnConstraintsToReference(command.def.constraints, no)
         [] command.subtype \in {"AT_DropColumn", "AT_AlterColumnType"} ->
                IF ColumnAppearsInForeignKeyToReferenceTable(command.name, relationId)
                THEN yes ELSE no
         [] command.subtype = "AT_AddConstraint" ->
                IF command.def.contype = "CONSTR_FOREIGN"
                THEN LET right == RangeVarGetRelid(command.def.pktable, FALSE)
                     IN IF right.error # "none"
                        THEN [executeSequentially |-> FALSE, error |-> right.error]
                        ELSE IF IsReferenceTable(right.oid) THEN yes ELSE no
                ELSE no
         [] OTHER -> no

IsTransactionBlock == inTransactionBlock

ParallelQueryExecutedInTransaction == parallelQueryExecuted

\* mutant: the error is raised for reference tables as well
ConflictingExecutionMode_AnyMethod(relationId, executeSequentially) ==
    /\ executeSequentially
    /\ IsDistributedTable(relationId)
    /\ ParallelQueryExecutedInTransaction

\* lines 3111-3113: the condition of the conflicting-execution-mode error
ConflictingExecutionMode(relationId, executeSequentially) ==
    /\ executeSequentially
    /\ IsDistributedTable(relationId)
    /\ PartitionMethod(relationId) # DISTRIBUTE_BY_NONE
    /\ ParallelQueryExecutedInTransaction

\* the result: the flag, the error raised ("none" when it returns), and whether
\* SetLocalMultiShardModifyModeToSequential was called
SetupExecutionModeForAlterTable(relationId, command) ==
    LET d == ExecuteSequentiallyDecision(relationId, command)
        setSequential ==
            /\ d.error = "none"
            /\ d.executeSequentially
            /\ command.subtype = "AT_AlterColumnType"
            /\ IsTransactionBlock
    IN IF d.error # "none"
       THEN [executeSequentially |-> FALSE, error |-> d.error, setSequential |-> FALSE]
       ELSE IF ConflictingExecutionMode(relationId, d.executeSequentially)
       THEN [executeSequentially |-> TRUE, error |-> "ERR_CONFLICTING_EXECUTION_MODE",
             setSequential |-> setSequential]
       ELSE [executeSequentially |-> d.executeSequentially, error |-> "none",
             setSequential |-> setSequential]

(***************************************************************************)
(* ErrorIfUnsupportedAlterIndexStmt                                        *)
(***************************************************************************)
\* mutant: every sub-command of an ALTER INDEX is let through
RECURSIVE UnsupportedAlterIndexLoop_AllowsAll(_, _)
UnsupportedAlterIndexLoop_AllowsAll(stmt, i) ==
    IF i > Len(stmt.cmds) THEN [error |-> "none", markFK |-> FALSE]
    ELSE UnsupportedAlterIndexLoop_AllowsAll(stmt, i + 1)

RECURSIVE UnsupportedAlterIndexLoop(_, _)
UnsupportedAlterIndexLoop(stmt, i) ==
    IF i > Len(stmt.cmds) THEN [error |-> "none", markFK |-> FALSE]
    ELSE IF stmt.cmds[i].subtype \in {"AT_SetRelOptions", "AT_ResetRelOptions",
                                      "AT_ReplaceRelOptions"}
    THEN UnsupportedAlterIndexLoop(stmt, i + 1)
    ELSE [error |-> "ERR_UNSUPPORTED_ALTER_INDEX_SUBCOMMAND", markFK |-> FALSE]

ErrorIfUnsupportedAlterIndexStmt(stmt) == UnsupportedAlterIndexLoop(stmt, 1)

(***************************************************************************)
(* PlanAlterTableStmt.  The result carries the job list, the error raised  *)
(* ("none" when the function returns), and the side effects of the call:   *)
(* markFK (MarkInvalidateForeignKeyGraph) and setSequential                *)
(* (SetLocalMultiShardModifyModeToSequential).                             *)
(***************************************************************************)
RELKIND_INDEX == "i"
RELKIND_RELATION == "r"
RELKIND_FOREIGN_TABLE == "f"

get_rel_relkind(relationId) ==
    IF relationId = 6 THEN RELKIND_INDEX
    ELSE IF relationId = 7 THEN RELKIND_FOREIGN_TABLE
    ELSE RELKIND_RELATION

IndexGetRelation(indexId) == 1

QueryString(stmt) == stmt.type

\* mutant: a relation the sub-command names is looked up without raising
RightRelationOfCommand_MissingOk(stmt, command, rightRelationId) ==
    LET found(name) == [oid |-> RangeVarGetRelid(name, TRUE).oid, error |-> "none",
                        returnNIL |-> FALSE]
    IN CASE command.subtype = "AT_AddConstraint" /\ command.def.contype = "CONSTR_FOREIGN" ->
                found(command.def.pktable)
         [] command.subtype \in {"AT_AttachPartition", "AT_DetachPartition"} ->
                found(command.def.name)
         [] OTHER -> [oid |-> rightRelationId, error |-> "none", returnNIL |-> FALSE]

\* lines 1082-1174: the referenced relation the sub-command names, if any
RightRelationOfCommand(stmt, command, rightRelationId) ==
    LET keep == [oid |-> rightRelationId, error |-> "none", returnNIL |-> FALSE]
        found(r) == [oid |-> r.oid, error |-> r.error, returnNIL |-> FALSE]
        fks == IF command.subtype = "AT_AddColumn"
               THEN SelectSeq(command.def.constraints,
                              LAMBDA c : c.contype = "CONSTR_FOREIGN")
               ELSE << >>
    IN CASE command.subtype = "AT_AddConstraint" ->
                IF command.def.contype = "CONSTR_FOREIGN"
                THEN found(RangeVarGetRelid(command.def.pktable, stmt.missing_ok))
                ELSE keep
         [] command.subtype = "AT_AddColumn" ->
                IF fks # << >>
                THEN found(RangeVarGetRelid(fks[1].pktable, stmt.missing_ok))
                ELSE keep
         [] command.subtype = "AT_AttachPartition" ->
                LET r == RangeVarGetRelid(command.def.name, FALSE)
                IN [oid |-> r.oid, error |-> r.error,
                    returnNIL |-> r.error = "none" /\ ~IsDistributedTable(r.oid)]
         [] command.subtype = "AT_DetachPartition" ->
                found(RangeVarGetRelid(command.def.name, FALSE))
         [] OTHER -> keep

\* mutant: the flag of the last sub-command replaces the accumulated flag
AccumulateExecuteSequentially_LastWins(executeSequentially, commandResult) == commandResult

\* line 1176: executeSequentially |= SetupExecutionModeForAlterTable(...)
AccumulateExecuteSequentially(executeSequentially, commandResult) ==
    executeSequentially \/ commandResult

RECURSIVE PlanAlterTableLoop(_, _, _, _, _, _)
PlanAlterTableLoop(stmt, leftRelationId, i, rightRelationId, executeSequentially, setSequential) ==
    IF i > Len(stmt.cmds)
    THEN [outcome |-> "job", error |-> "none", rightRelationId |-> rightRelationId,
          executeSequentially |-> executeSequentially, setSequential |-> setSequential]
    ELSE LET command == stmt.cmds[i]
             right == RightRelationOfCommand(stmt, command, rightRelationId)
             mode == SetupExecutionModeForAlterTable(leftRelationId, command)
         IN IF right.error # "none"
            THEN [outcome |-> "error", error |-> right.error,
                  rightRelationId |-> rightRelationId,
                  executeSequentially |-> executeSequentially,
                  setSequential |-> setSequential]
            ELSE IF right.returnNIL
            THEN [outcome |-> "NIL", error |-> "none", rightRelationId |-> right.oid,
                  executeSequentially |-> executeSequentially,
                  setSequential |-> setSequential]
            ELSE IF mode.error # "none"
            THEN [outcome |-> "error", error |-> mode.error,
                  rightRelationId |-> right.oid,
                  executeSequentially |-> executeSequentially,
                  setSequential |-> setSequential \/ mode.setSequential]
            ELSE PlanAlterTableLoop(stmt, leftRelationId, i + 1, right.oid,
                    AccumulateExecuteSequentially(executeSequentially,
                                                  mode.executeSequentially),
                    setSequential \/ mode.setSequential)

PlanAlterTableStmt(stmt) ==
    LET none(e, m, s) == [ddlJobs |-> NIL, error |-> e, markFK |-> m, setSequential |-> s]
        lookup == AlterTableLookupRelation(stmt)
        leftRelationKind == get_rel_relkind(lookup.oid)
        leftRelationId == IF leftRelationKind = RELKIND_INDEX
                          THEN IndexGetRelation(lookup.oid) ELSE lookup.oid
        check == IF leftRelationKind = RELKIND_INDEX
                 THEN ErrorIfUnsupportedAlterIndexStmt(stmt)
                 ELSE ErrorIfUnsupportedAlterTableStmt(stmt)
        loop == PlanAlterTableLoop(stmt, leftRelationId, 1, InvalidOid, FALSE, FALSE)
        commandString == QueryString(stmt)
        jobTaskList == IF loop.rightRelationId # InvalidOid
                       THEN IF ~IsDistributedTable(loop.rightRelationId) THEN NIL
                            ELSE InterShardDDLTaskList(leftRelationId,
                                                       loop.rightRelationId, commandString)
                       ELSE DDLTaskList(leftRelationId, commandString)
        ddlJob == [targetRelationId |-> leftRelationId,
                   concurrentIndexCmd |-> FALSE,
                   commandString |-> commandString,
                   executeSequentially |-> loop.executeSequentially,
                   taskList |-> jobTaskList]
    IN IF stmt.relation = NULL THEN none("none", FALSE, FALSE)
       ELSE IF lookup.error # "none" THEN none(lookup.error, FALSE, FALSE)
       ELSE IF ~OidIsValid(lookup.oid) THEN none("none", FALSE, FALSE)
       ELSE IF ~IsDistributedTable(leftRelationId) THEN none("none", FALSE, FALSE)
       ELSE IF check.error # "none" THEN none(check.error, check.markFK, FALSE)
       ELSE IF loop.outcome = "error"
       THEN none(loop.error, check.markFK, loop.setSequential)
       ELSE IF loop.outcome = "NIL" THEN none("none", check.markFK, loop.setSequential)
       ELSE [ddlJobs |-> <<ddlJob>>, error |-> "none", markFK |-> check.markFK,
             setSequential |-> loop.setSequential]

(***************************************************************************)
(* SpecPlan: PlanAlterTableStmt applied to every ALTER TABLE statement of  *)
(* up to MaxCmds sub-commands, on the catalog above, in every transaction  *)
(* state.                                                                  *)
(***************************************************************************)
ClusterCatalog ==
    /\ pgDistPartition = (1 :> DISTRIBUTE_BY_HASH) @@ (2 :> DISTRIBUTE_BY_NONE)
                            @@ (3 :> DISTRIBUTE_BY_APPEND) @@ (5 :> DISTRIBUTE_BY_HASH)
                            @@ (7 :> DISTRIBUTE_BY_APPEND) @@ (8 :> DISTRIBUTE_BY_HASH)
    /\ pgDistShard = (1 :> ShardIdsOf(1, MaxShards)) @@ (2 :> ShardIdsOf(2, 1))
                        @@ (3 :> ShardIdsOf(3, 1)) @@ (5 :> ShardIdsOf(5, MaxShards - 1))
                        @@ (7 :> ShardIdsOf(7, 1)) @@ (8 :> ShardIdsOf(8, MaxShards))
    /\ pgDistPlacement =
           [s \in UNION { Range(pgDistShard[r]) : r \in DOMAIN pgDistShard } |-> AllFinalized]

ForeignKey(conname, pktable) == Constraint("CONSTR_FOREIGN", conname, pktable)

PlanCmds ==
    { AlterTableCmd("AT_AddColumn", "new_col", ColumnDef("int", << >>)),
      AlterTableCmd("AT_AddColumn", "new_col", ColumnDef("serial", << >>)),
      AlterTableCmd("AT_AddColumn", "new_col",
                    ColumnDef("int", <<Constraint("CONSTR_CHECK", NULL, NULL),
                                       ForeignKey("fk_new", "warehouses")>>)),
      AlterTableCmd("AT_DropColumn", "dist_col", NoDef),
      AlterTableCmd("AT_DropColumn", "fk_col", NoDef),
      AlterTableCmd("AT_DropColumn", "plain_col", NoDef),
      AlterTableCmd("AT_AlterColumnType", "fk_col", ColumnDef("bigint", << >>)),
      AlterTableCmd("AT_AlterColumnType", "plain_col", ColumnDef("bigint", << >>)),
      AlterTableCmd("AT_ColumnDefault", "dist_col", NoDef),
      AlterTableCmd("AT_DropNotNull", "plain_col", NoDef),
      AlterTableCmd("AT_AddConstraint", NULL, ForeignKey("fk_new", "warehouses")),
      AlterTableCmd("AT_AddConstraint", NULL, ForeignKey("fk_new", "items")),
      AlterTableCmd("AT_AddConstraint", NULL, ForeignKey("fk_new", "missing")),
      AlterTableCmd("AT_AddConstraint", NULL, ForeignKey(NULL, "warehouses")),
      AlterTableCmd("AT_DropConstraint", "fk_to_ref", NoDef),
      AlterTableCmd("AT_DropConstraint", "fk_plain", NoDef),
      AlterTableCmd("AT_AttachPartition", NULL, PartitionCmd("local_t")),
      AlterTableCmd("AT_DetachPartition", NULL, PartitionCmd("items")),
      AlterTableCmd("AT_AttachPartition", NULL, PartitionCmd("missing")),
      AlterTableCmd("AT_DetachPartition", NULL, PartitionCmd("missing")),
      AlterTableCmd("AT_SetRelOptions", NULL, NoDef),
      AlterTableCmd("AT_SetTableSpace", "fast_disk", NoDef) }

PlanTargets == {"orders", "warehouses", "events", "local_t", "orders_idx", "missing", NULL}

AlterTableStatements ==
    { AlterTableStmt(relation, missing_ok, cmds) :
        relation \in PlanTargets, missing_ok \in BOOLEAN,
        cmds \in UNION { [1..n -> PlanCmds] : n \in 1..MaxCmds } }

TransactionStates ==
    { [block |-> FALSE, parallel |-> FALSE], [block |-> TRUE, parallel |-> FALSE],
      [block |-> TRUE, parallel |-> TRUE] }

InitPlan ==
    /\ ClusterCatalog
    /\ TasksIdle
    /\ UtilityIdle
    /\ LockIdle
    /\ \E t \in TransactionStates :
        /\ inTransactionBlock = t.block
        /\ parallelQueryExecuted = t.parallel
    /\ MultiShardConnectionType = PARALLEL_CONNECTION
    /\ shouldInvalidateForeignKeyGraph = FALSE
    /\ planStmt = [type |-> "none"]
    /\ planResult = [ddlJobs |-> NIL, error |-> "none", markFK |-> FALSE,
                     setSequential |-> FALSE]

\* an error aborts the transaction, which undoes the transaction-local setting; the
\* foreign-key-graph flag is a backend-local variable and stays
CallPlanAlterTableStmt ==
    /\ planStmt.type = "none"
    /\ \E stmt \in AlterTableStatements :
        LET result == PlanAlterTableStmt(stmt)
        IN /\ planStmt' = stmt
           /\ planResult' = result
           /\ shouldInvalidateForeignKeyGraph' =
                  (shouldInvalidateForeignKeyGraph \/ result.markFK)
           /\ MultiShardConnectionType' =
                  IF result.error = "none" /\ result.setSequential
                  THEN SEQUENTIAL_CONNECTION ELSE MultiShardConnectionType
    /\ UNCHANGED <<catalogVars, taskVars, lockVars, utilityVars, inTransactionBlock,
                   parallelQueryExecuted>>

\* the relation the statement targets, once resolved as PlanAlterTableStmt resolves it
PlannedRelationId ==
    IF planStmt.type = "none" \/ planStmt.relation \notin DOMAIN PgClass THEN InvalidOid
    ELSE IF get_rel_relkind(PgClass[planStmt.relation]) = RELKIND_INDEX
    THEN IndexGetRelation(PgClass[planStmt.relation])
    ELSE PgClass[planStmt.relation]

\* the sub-command is one of those the sequential rule names
RequiresSequentialMode(relationId, command) ==
    \/ /\ command.subtype \in {"AT_DropColumn", "AT_AlterColumnType"}
       /\ ColumnAppearsInForeignKeyToReferenceTable(command.name, relationId)
    \/ /\ command.subtype = "AT_AddConstraint"
       /\ command.def.contype = "CONSTR_FOREIGN"
       /\ command.def.pktable \in DOMAIN PgClass
       /\ IsReferenceTable(PgClass[command.def.pktable])
    \/ /\ command.subtype = "AT_AddColumn"
       /\ \E k \in DOMAIN command.def.constraints :
            /\ command.def.constraints[k].contype = "CONSTR_FOREIGN"
            /\ command.def.constraints[k].pktable \in DOMAIN PgClass
            /\ IsReferenceTable(PgClass[command.def.constraints[k].pktable])
    \/ /\ command.subtype = "AT_DropConstraint"
       /\ ConstraintIsAForeignKeyToReferenceTable(command.name, relationId)

SomeCommandRequiresSequentialMode ==
    \E i \in DOMAIN planStmt.cmds :
        RequiresSequentialMode(PlannedRelationId, planStmt.cmds[i])

(***************************************************************************)
(* C6: for an ALTER TABLE on a distributed table the planned job's         *)
(* executeSequentially flag is true if and only if at least one            *)
(* sub-command drops or type-alters a column that participates in a        *)
(* foreign key to a reference table, or adds or drops a foreign key whose  *)
(* referenced side is a reference table: the flag is the disjunction over  *)
(* all sub-commands.                                                       *)
(***************************************************************************)
C6_SequentialFlagIsDisjunction ==
    (planStmt.type = "AlterTableStmt" /\ planResult.ddlJobs # NIL) =>
        (planResult.ddlJobs[1].executeSequentially <=> SomeCommandRequiresSequentialMode)

\* a job whose flag comes from the first of two sub-commands only
C6_Witness ==
    /\ planStmt.type = "AlterTableStmt"
    /\ planResult.ddlJobs # NIL
    /\ Len(planStmt.cmds) = 2
    /\ planResult.ddlJobs[1].executeSequentially
    /\ RequiresSequentialMode(PlannedRelationId, planStmt.cmds[1])
    /\ ~RequiresSequentialMode(PlannedRelationId, planStmt.cmds[2])

(***************************************************************************)
(* C7.  Errors PlanAlterTableStmt raises before the execution mode of a    *)
(* sub-command is looked at: the validators and the relation lookups.      *)
(***************************************************************************)
ParallelThenSequential ==
    /\ planStmt.type = "AlterTableStmt"
    /\ parallelQueryExecuted
    /\ IsDistributedTable(PlannedRelationId)
    /\ get_rel_relkind(PgClass[planStmt.relation]) = RELKIND_RELATION
    /\ SomeCommandRequiresSequentialMode
    /\ ErrorIfUnsupportedAlterTableStmt(planStmt).error = "none"
    /\ planResult.error # "ERR_RELATION_NOT_FOUND"

C7_WitnessReference ==
    /\ ParallelThenSequential
    /\ PartitionMethod(PlannedRelationId) = DISTRIBUTE_BY_NONE
    /\ planResult.ddlJobs # NIL

(***************************************************************************)
(* multi_ProcessUtility for one utility statement of a session: planning,  *)
(* the local command, PostProcessUtility, the foreign key graph flush and  *)
(* ExecuteDistributedDDLJob.  pc is the position inside the hook; history  *)
(* logs, in order, what the command did locally and what it sent to the    *)
(* workers.                                                                *)
(***************************************************************************)
COMMIT_PROTOCOL_BARE == "COMMIT_PROTOCOL_BARE"
COMMIT_PROTOCOL_1PC == "COMMIT_PROTOCOL_1PC"
COMMIT_PROTOCOL_2PC == "COMMIT_PROTOCOL_2PC"
DISABLE_DDL_PROPAGATION == "SET citus.enable_ddl_propagation TO 'off'"

IndexStmt(relation, idxname, concurrent) ==
    [type |-> "IndexStmt", relation |-> relation, idxname |-> idxname,
     concurrent |-> concurrent]

IsA(node, type) == node.type = type

Event(ev, arg, ok) == [ev |-> ev, arg |-> arg, ok |-> ok, xact |-> xactCount]

IsCoordinator == isCoordinator

\* one task per shard of the relation, carrying the index command
CreateIndexTaskList(relationId, stmt) == DDLTaskList(relationId, QueryString(stmt))

PlanIndexStmt(stmt) ==
    LET relationId == RangeVarGetRelid(stmt.relation, FALSE).oid
        ddlJob == [targetRelationId |-> relationId,
                   concurrentIndexCmd |-> stmt.concurrent,
                   commandString |-> QueryString(stmt),
                   executeSequentially |-> FALSE,
                   taskList |-> CreateIndexTaskList(relationId, stmt)]
    IN [ddlJobs |-> IF IsDistributedTable(relationId) THEN <<ddlJob>> ELSE NIL,
        error |-> "none", markFK |-> FALSE, setSequential |-> FALSE]

(***************************************************************************)
(* DROP TABLE: ProcessDropTableStmt marks the foreign key graph once for   *)
(* every dropped distributed table that takes part in a foreign key, and   *)
(* detaches the partitions of a partitioned table on the metadata workers. *)
(***************************************************************************)
DropStmt(removeType, objects) ==
    [type |-> "DropStmt", removeType |-> removeType, objects |-> objects]

TableReferenced(relationId) == IsReferenceTable(relationId)

TableReferencing(relationId) == IsDistributedTable(relationId)

\* the catalog holds no partitioned table
PartitionList(relationId) == << >>

PartitionedTable(relationId) == PartitionList(relationId) # << >>

GenerateDetachPartitionCommand(partitionRelationId) ==
    <<"ALTER TABLE DETACH PARTITION", partitionRelationId>>

EnsureCoordinator == IF IsCoordinator THEN "none" ELSE "ERR_NOT_COORDINATOR"

RECURSIVE DropTableLoop(_, _, _, _)
DropTableLoop(stmt, i, marks, sent) ==
    IF i > Len(stmt.objects) THEN [error |-> "none", marks |-> marks, sent |-> sent]
    ELSE LET relationId == RangeVarGetRelid(stmt.objects[i], TRUE).oid
             inForeignKey == TableReferenced(relationId) \/ TableReferencing(relationId)
             marked == IF inForeignKey THEN marks + 1 ELSE marks
             partitionList == PartitionList(relationId)
         IN IF ~OidIsValid(relationId) \/ ~IsDistributedTable(relationId)
            THEN DropTableLoop(stmt, i + 1, marks, sent)
            ELSE IF ~ShouldSyncTableMetadata(relationId) \/ ~PartitionedTable(relationId)
            THEN DropTableLoop(stmt, i + 1, marked, sent)
            ELSE IF EnsureCoordinator # "none"
            THEN [error |-> EnsureCoordinator, marks |-> marked, sent |-> sent]
            ELSE IF Len(partitionList) = 0
            THEN DropTableLoop(stmt, i + 1, marked, sent)
            ELSE DropTableLoop(stmt, i + 1, marked,
                     sent \o <<DISABLE_DDL_PROPAGATION>>
                          \o [p \in DOMAIN partitionList |->
                                 GenerateDetachPartitionCommand(partitionList[p])])

ProcessDropTableStmt(stmt) ==
    LET loop == DropTableLoop(stmt, 1, 0, << >>)
    IN [ddlJobs |-> NIL, error |-> loop.error, markFK |-> loop.marks > 0,
        setSequential |-> FALSE, marks |-> loop.marks, sent |-> loop.sent]

(***************************************************************************)
(* ALTER TABLE ... RENAME                                                  *)
(***************************************************************************)
RenameStmt(renameType, relationType, relation, missing_ok) ==
    [type |-> "RenameStmt", renameType |-> renameType, relationType |-> relationType,
     relation |-> relation, missing_ok |-> missing_ok]

IsAlterTableRenameStmt(stmt) ==
    \/ stmt.renameType = "OBJECT_TABLE"
    \/ stmt.renameType = "OBJECT_COLUMN" /\ stmt.relationType = "OBJECT_TABLE"
    \/ stmt.renameType = "OBJECT_TABCONSTRAINT"

IsIndexRenameStmt(stmt) == stmt.renameType = "OBJECT_INDEX"

IsPolicyRenameStmt(stmt) == stmt.renameType = "OBJECT_POLICY"

ErrorIfUnsupportedRenameStmt(stmt) ==
    IF IsAlterTableRenameStmt(stmt) /\ stmt.renameType = "OBJECT_TABCONSTRAINT"
    THEN "ERR_RENAME_CONSTRAINT_UNSUPPORTED" ELSE "none"

PlanRenameStmt(stmt) ==
    LET none(e) == [ddlJobs |-> NIL, error |-> e, markFK |-> FALSE, setSequential |-> FALSE]
        lookup == RangeVarGetRelid(stmt.relation, stmt.missing_ok)
        objectRelationId == lookup.oid
        tableRelationId == IF stmt.renameType = "OBJECT_INDEX"
                           THEN IndexGetRelation(objectRelationId) ELSE objectRelationId
        renameCommand == QueryString(stmt)
        ddlJob == [targetRelationId |-> tableRelationId,
                   concurrentIndexCmd |-> FALSE,
                   commandString |-> renameCommand,
                   executeSequentially |-> FALSE,
                   taskList |-> DDLTaskList(tableRelationId, renameCommand)]
    IN IF ~IsAlterTableRenameStmt(stmt) /\ ~IsIndexRenameStmt(stmt)
          /\ ~IsPolicyRenameStmt(stmt)
       THEN none("none")
       ELSE IF lookup.error # "none" THEN none(lookup.error)
       ELSE IF ~OidIsValid(objectRelationId) THEN none("none")
       ELSE IF stmt.renameType \notin {"OBJECT_TABLE", "OBJECT_COLUMN",
                                       "OBJECT_TABCONSTRAINT", "OBJECT_POLICY",
                                       "OBJECT_INDEX"}
       THEN none("none")
       ELSE IF ~IsDistributedTable(tableRelationId) THEN none("none")
       ELSE IF ErrorIfUnsupportedRenameStmt(stmt) # "none"
       THEN none(ErrorIfUnsupportedRenameStmt(stmt))
       ELSE [ddlJobs |-> <<ddlJob>>, error |-> "none", markFK |-> FALSE,
             setSequential |-> FALSE]

(***************************************************************************)
(* ALTER TABLE while DDL propagation is disabled                           *)
(***************************************************************************)
RECURSIVE AlterDropsPartitionColumnLoop(_, _)
AlterDropsPartitionColumnLoop(stmt, i) ==
    IF i > Len(stmt.cmds) THEN "none"
    ELSE IF stmt.cmds[i].subtype = "AT_DropColumn"
            /\ AlterInvolvesPartitionColumn(stmt, stmt.cmds[i])
    THEN "ERR_DROP_PARTITION_COLUMN"
    ELSE AlterDropsPartitionColumnLoop(stmt, i + 1)

ErrorIfAlterDropsPartitionColumn(stmt) ==
    LET lookup == AlterTableLookupRelation(stmt)
    IN IF stmt.relation = NULL THEN "none"
       ELSE IF lookup.error # "none" THEN lookup.error
       ELSE IF ~OidIsValid(lookup.oid) THEN "none"
       ELSE IF ~IsDistributedTable(lookup.oid) THEN "none"
       ELSE AlterDropsPartitionColumnLoop(stmt, 1)

\* the number of MarkInvalidateForeignKeyGraph calls ErrorIfUnsupportedAlterTableStmt
\* makes before it returns or raises
RECURSIVE AlterTableMarkCalls(_, _)
AlterTableMarkCalls(stmt, i) ==
    IF i > Len(stmt.cmds) THEN 0
    ELSE LET r == UnsupportedAlterTableCmd(stmt, stmt.cmds[i])
         IN (IF r.markFK THEN 1 ELSE 0)
                + (IF r.return THEN 0 ELSE AlterTableMarkCalls(stmt, i + 1))

\* lines 377-500: the planner of the statement.  The result carries the jobs, the
\* error raised, the number of MarkInvalidateForeignKeyGraph calls and the commands
\* sent to the workers on the way.
\* the statement ended with an error before any job was planned
NoPlan(e) ==
    [ddlJobs |-> NIL, error |-> e, markFK |-> FALSE, setSequential |-> FALSE, marks |-> 0,
     sent |-> << >>]

\* mutant: ALTER TABLE is planned whatever citus.enable_ddl_propagation says
PlanUtility_IgnoresSetting(stmt) ==
    IF IsA(stmt, "AlterTableStmt") /\ stmt.relkind \in {"OBJECT_TABLE", "OBJECT_INDEX"}
    THEN LET r == PlanAlterTableStmt(stmt)
         IN [ddlJobs |-> r.ddlJobs, error |-> r.error, markFK |-> r.markFK,
             setSequential |-> r.setSequential,
             marks |-> IF r.markFK THEN AlterTableMarkCalls(stmt, 1) ELSE 0,
             sent |-> << >>]
    ELSE [ddlJobs |-> NIL, error |-> "none", markFK |-> FALSE, setSequential |-> FALSE,
          marks |-> 0, sent |-> << >>]

PlanUtility(stmt) ==
    LET plain(r) == [ddlJobs |-> r.ddlJobs, error |-> r.error, markFK |-> r.markFK,
                     setSequential |-> r.setSequential,
                     marks |-> IF r.markFK THEN AlterTableMarkCalls(stmt, 1) ELSE 0,
                     sent |-> << >>]
        nothing(e) == [ddlJobs |-> NIL, error |-> e, markFK |-> FALSE,
                       setSequential |-> FALSE, marks |-> 0, sent |-> << >>]
    IN IF EnableDDLPropagation
       THEN CASE IsA(stmt, "IndexStmt") -> plain(PlanIndexStmt(stmt))
              [] IsA(stmt, "DropStmt") /\ stmt.removeType = "OBJECT_TABLE" ->
                     ProcessDropTableStmt(stmt)
              [] IsA(stmt, "AlterTableStmt")
                    /\ stmt.relkind \in {"OBJECT_TABLE", "OBJECT_INDEX"} ->
                     plain(PlanAlterTableStmt(stmt))
              [] IsA(stmt, "RenameStmt") -> plain(PlanRenameStmt(stmt))
              [] OTHER -> nothing("none")
       ELSE IF IsA(stmt, "AlterTableStmt") /\ stmt.relkind = "OBJECT_TABLE"
       THEN nothing(ErrorIfAlterDropsPartitionColumn(stmt))
       ELSE nothing("none")

IndexStatements ==
    { IndexStmt(relation, "new_idx", concurrent) :
        relation \in {"orders", "warehouses", "local_t"}, concurrent \in BOOLEAN }

(***************************************************************************)
(* The constraint checks that run after the local command (lines 598-682). *)
(* An index is described by what BuildIndexInfo returns for it: whether it *)
(* is unique, its exclusion operators (NULL when it has none) and its key  *)
(* columns.                                                                *)
(***************************************************************************)
IndexConstraint(contype, conname, keys, exclusionOps) ==
    [kind |-> "Constraint", contype |-> contype, conname |-> conname, pktable |-> NULL,
     keys |-> keys, exclusionOps |-> exclusionOps]

IndexInfo(ii_Unique, ii_ExclusionOps, keys) ==
    [ii_Unique |-> ii_Unique, ii_ExclusionOps |-> ii_ExclusionOps, keys |-> keys]

\* the indexes the catalog holds before the command: orders_idx on orders
PgIndex(relationId) ==
    IF relationId = 1 THEN << IndexInfo(FALSE, NULL, <<"plain_col">>) >> ELSE << >>

IndexConstraintTypes == {"CONSTR_UNIQUE", "CONSTR_PRIMARY", "CONSTR_EXCLUSION"}

\* the index the local command built for a constraint it added
IndexOfConstraint(constraint) ==
    IndexInfo(constraint.contype \in {"CONSTR_UNIQUE", "CONSTR_PRIMARY"},
              IF constraint.contype = "CONSTR_EXCLUSION" THEN constraint.exclusionOps
              ELSE NULL,
              constraint.keys)

\* the indexes built for the UNIQUE and PRIMARY KEY constraints of an added column
IndexesOfColumn(command) ==
    LET indexed == SelectSeq(command.def.constraints,
                             LAMBDA c : c.contype \in {"CONSTR_UNIQUE", "CONSTR_PRIMARY"})
    IN [k \in DOMAIN indexed |-> IndexInfo(TRUE, NULL, <<command.name>>)]

RECURSIVE IndexesAddedBy(_, _)
IndexesAddedBy(cmds, i) ==
    IF i > Len(cmds) THEN << >>
    ELSE (IF cmds[i].subtype = "AT_AddConstraint"
             /\ cmds[i].def.contype \in IndexConstraintTypes
          THEN << IndexOfConstraint(cmds[i].def) >>
          ELSE IF cmds[i].subtype = "AT_AddColumn" THEN IndexesOfColumn(cmds[i])
          ELSE << >>)
         \o IndexesAddedBy(cmds, i + 1)

\* the index list of the relation once the local ALTER TABLE has been applied
RelationGetIndexList(relationId, stmt) ==
    PgIndex(relationId) \o IndexesAddedBy(stmt.cmds, 1)

OperatorImplementsEquality(operator) == operator = "="

\* mutant: the operators of an exclusion constraint are not looked at
HasDistributionColumn_UniqueOnly(indexInfo, distributionColumn) ==
    \E attributeIndex \in DOMAIN indexInfo.keys :
        /\ indexInfo.keys[attributeIndex] = distributionColumn
        /\ indexInfo.ii_Unique

\* lines 2205-2227
HasDistributionColumn(indexInfo, distributionColumn) ==
    \E attributeIndex \in DOMAIN indexInfo.keys :
        /\ indexInfo.keys[attributeIndex] = distributionColumn
        /\ \/ indexInfo.ii_Unique
           \/ /\ indexInfo.ii_ExclusionOps # NULL
              /\ OperatorImplementsEquality(indexInfo.ii_ExclusionOps[attributeIndex])

\* the foreign keys of the relation once the local command has been applied: a
\* foreign key must reference a reference table or a colocated table
RECURSIVE ConstraintsAddedBy(_, _)
ConstraintsAddedBy(cmds, i) ==
    IF i > Len(cmds) THEN << >>
    ELSE (IF cmds[i].subtype = "AT_AddConstraint" THEN << cmds[i].def >>
          ELSE IF cmds[i].subtype = "AT_AddColumn" THEN cmds[i].def.constraints
          ELSE << >>)
         \o ConstraintsAddedBy(cmds, i + 1)

RECURSIVE UnsupportedForeignConstraintLoop(_, _, _)
UnsupportedForeignConstraintLoop(relationId, constraints, i) ==
    IF i > Len(constraints) THEN "none"
    ELSE LET def == constraints[i]
             referenced == IF def.contype = "CONSTR_FOREIGN"
                           THEN RangeVarGetRelid(def.pktable, TRUE).oid ELSE InvalidOid
         IN IF ~OidIsValid(referenced) \/ IsReferenceTable(referenced)
            THEN UnsupportedForeignConstraintLoop(relationId, constraints, i + 1)
            ELSE IF ~IsDistributedTable(referenced)
            THEN "ERR_FOREIGN_KEY_TO_LOCAL_TABLE"
            ELSE IF ~TablesColocated(relationId, referenced)
            THEN "ERR_FOREIGN_KEY_NOT_COLOCATED"
            ELSE UnsupportedForeignConstraintLoop(relationId, constraints, i + 1)

ErrorIfUnsupportedForeignConstraint(relationId, stmt) ==
    UnsupportedForeignConstraintLoop(relationId, ConstraintsAddedBy(stmt.cmds, 1), 1)

\* mutant: on an append-distributed table the warning ends the check of the index
RECURSIVE UnsupportedConstraintLoop_AppendOnlyWarns(_, _, _, _, _)
UnsupportedConstraintLoop_AppendOnlyWarns(indexList, i, distributionMethod, distributionColumn, warnings) ==
    IF i > Len(indexList) THEN [error |-> "none", warnings |-> warnings]
    ELSE LET indexInfo == indexList[i]
             checked == indexInfo.ii_Unique \/ indexInfo.ii_ExclusionOps # NULL
             isAppend == distributionMethod = DISTRIBUTE_BY_APPEND
         IN IF checked /\ ~isAppend /\ ~HasDistributionColumn(indexInfo, distributionColumn)
            THEN [error |-> "ERR_CONSTRAINT_WITHOUT_PARTITION_COLUMN", warnings |-> warnings]
            ELSE UnsupportedConstraintLoop_AppendOnlyWarns(
                     indexList, i + 1, distributionMethod, distributionColumn,
                     IF checked /\ isAppend THEN warnings + 1 ELSE warnings)

\* lines 2166-2240
RECURSIVE UnsupportedConstraintLoop(_, _, _, _, _)
UnsupportedConstraintLoop(indexList, i, distributionMethod, distributionColumn, warnings) ==
    IF i > Len(indexList) THEN [error |-> "none", warnings |-> warnings]
    ELSE LET indexInfo == indexList[i]
             warned == IF distributionMethod = DISTRIBUTE_BY_APPEND
                       THEN warnings + 1 ELSE warnings
         IN IF ~indexInfo.ii_Unique /\ indexInfo.ii_ExclusionOps = NULL
            THEN UnsupportedConstraintLoop(indexList, i + 1, distributionMethod,
                                           distributionColumn, warnings)
            ELSE IF ~HasDistributionColumn(indexInfo, distributionColumn)
            THEN [error |-> "ERR_CONSTRAINT_WITHOUT_PARTITION_COLUMN", warnings |-> warned]
            ELSE UnsupportedConstraintLoop(indexList, i + 1, distributionMethod,
                                           distributionColumn, warned)

\* mutant: the indexes of a reference table are checked like those of any other table
ErrorIfUnsupportedConstraint_NoExemption(relationId, stmt, distributionMethod, distributionColumn) ==
    LET foreign == ErrorIfUnsupportedForeignConstraint(relationId, stmt)
    IN IF foreign # "none" THEN [error |-> foreign, warnings |-> 0]
       ELSE UnsupportedConstraintLoop(RelationGetIndexList(relationId, stmt), 1,
                                      distributionMethod, distributionColumn, 0)

ErrorIfUnsupportedConstraint(relationId, stmt, distributionMethod, distributionColumn) ==
    LET foreign == ErrorIfUnsupportedForeignConstraint(relationId, stmt)
    IN IF foreign # "none" THEN [error |-> foreign, warnings |-> 0]
       ELSE IF distributionMethod = DISTRIBUTE_BY_NONE
       THEN [error |-> "none", warnings |-> 0]
       ELSE UnsupportedConstraintLoop(RelationGetIndexList(relationId, stmt), 1,
                                      distributionMethod, distributionColumn, 0)

ErrorIfUnsupportedAlterAddConstraintStmt(stmt) ==
    LET relationId == AlterTableLookupRelation(stmt).oid
    IN ErrorIfUnsupportedConstraint(relationId, stmt, PartitionMethod(relationId),
                                    DistPartitionKey(relationId))

\* lines 666-679
UnnamedColumnConstraint_Never(constraints) == FALSE

UnnamedColumnConstraint(constraints) ==
    \E c \in DOMAIN constraints :
        /\ constraints[c].conname = NULL
        /\ constraints[c].contype \in {"CONSTR_PRIMARY", "CONSTR_UNIQUE",
                                       "CONSTR_FOREIGN", "CONSTR_CHECK"}

\* lines 616-681: the result carries the error raised, the number of direct
\* InvalidateForeignKeyGraph calls and the number of warnings
RECURSIVE PostLocalConstraintLoop(_, _, _, _)
PostLocalConstraintLoop(stmt, i, invalidations, warnings) ==
    IF i > Len(stmt.cmds)
    THEN [error |-> "none", invalidations |-> invalidations, warnings |-> warnings]
    ELSE LET command == stmt.cmds[i]
             relationId == AlterTableLookupRelation(stmt).oid
             check == ErrorIfUnsupportedAlterAddConstraintStmt(stmt)
             raise(e, w) == [error |-> e, invalidations |-> invalidations,
                             warnings |-> warnings + w]
         IN CASE command.subtype = "AT_AddConstraint" ->
                    IF check.error # "none" THEN raise(check.error, check.warnings)
                    ELSE IF ~OidIsValid(relationId)
                    THEN PostLocalConstraintLoop(stmt, i + 1, invalidations,
                                                 warnings + check.warnings)
                    ELSE PostLocalConstraintLoop(stmt, i + 1,
                             IF command.def.contype = "CONSTR_FOREIGN"
                             THEN invalidations + 1 ELSE invalidations,
                             warnings + check.warnings)
              [] command.subtype = "AT_AddColumn" ->
                    LET checked == Len(command.def.constraints) > 0
                        w == IF checked THEN check.warnings ELSE 0
                    IN IF checked /\ check.error # "none" THEN raise(check.error, w)
                       ELSE IF ~OidIsValid(relationId)
                       THEN PostLocalConstraintLoop(stmt, i + 1, invalidations,
                                                    warnings + w)
                       ELSE IF UnnamedColumnConstraint(command.def.constraints)
                       THEN raise("ERR_ADD_COLUMN_WITH_CONSTRAINT", w)
                       ELSE PostLocalConstraintLoop(stmt, i + 1, invalidations,
                                                    warnings + w)
              [] OTHER -> PostLocalConstraintLoop(stmt, i + 1, invalidations, warnings)

PostLocalConstraintChecks(stmt) ==
    IF IsA(stmt, "AlterTableStmt") THEN PostLocalConstraintLoop(stmt, 1, 0, 0)
    ELSE [error |-> "none", invalidations |-> 0, warnings |-> 0]

(***************************************************************************)
(* VACUUM and ANALYZE.  A statement carries its options and, for every     *)
(* table it names, the table and the columns given with it.                *)
(***************************************************************************)
VACOPT_VACUUM == "VACUUM"
VACOPT_ANALYZE == "ANALYZE"
VACOPT_VERBOSE == "VERBOSE"
VACOPT_FREEZE == "FREEZE"
VACOPT_FULL == "FULL"
VACOPT_DISABLE_PAGE_SKIPPING == "DISABLE_PAGE_SKIPPING"
VACUUM_ANALYZE_TASK == "VACUUM_ANALYZE_TASK"

VacuumRelation(relation, va_cols) == [relation |-> relation, va_cols |-> va_cols]

VacuumStmt(options, rels) == [type |-> "VacuumStmt", options |-> options, rels |-> rels]

\* the tables the statement names, in statement order
ExtractVacuumTargetRels(vacuumStmt) ==
    [i \in DOMAIN vacuumStmt.rels |-> vacuumStmt.rels[i].relation]

\* the columns given with the table at the (zero-based) position
VacuumColumnList(vacuumStmt, relationIndex) == vacuumStmt.rels[relationIndex + 1].va_cols

\* "name," for every element, the last comma replaced by the closing parenthesis
RECURSIVE CommaList(_)
CommaList(names) ==
    IF Len(names) = 1 THEN names[1] \o ")"
    ELSE names[1] \o "," \o CommaList(Tail(names))

\* lines 1625-1641: the command and the flags left once its bits are blocked out
VacuumCommand(vacuumFlags) ==
    IF VACOPT_VACUUM \in vacuumFlags
    THEN [text |-> "VACUUM ", flags |-> vacuumFlags \ {VACOPT_VACUUM}]
    ELSE IF VACOPT_VERBOSE \in vacuumFlags
    THEN [text |-> "ANALYZE VERBOSE ", flags |-> vacuumFlags \ {VACOPT_ANALYZE, VACOPT_VERBOSE}]
    ELSE [text |-> "ANALYZE ", flags |-> vacuumFlags \ {VACOPT_ANALYZE}]

\* lines 1653-1678: "(" and one "NAME," for every flag that is left
VacuumOptionList(vacuumFlags) ==
    LET option(flag, text) == IF flag \in vacuumFlags THEN text ELSE ""
    IN "(" \o option(VACOPT_ANALYZE, "ANALYZE,")
           \o option(VACOPT_DISABLE_PAGE_SKIPPING, "DISABLE_PAGE_SKIPPING,")
           \o option(VACOPT_FREEZE, "FREEZE,")
           \o option(VACOPT_FULL, "FULL,")
           \o option(VACOPT_VERBOSE, "VERBOSE,")

\* mutant: the comma after the last option is kept
ReplaceLastChar_Appends(data, char) == data \o char

\* line 1680: vacuumPrefix->data[vacuumPrefix->len - 1] = ')'
ReplaceLastChar(data, char) == SubSeq(data, 1, Len(data) - 1) \o char

DeparseVacuumStmtPrefix(vacuumFlags) ==
    LET command == VacuumCommand(vacuumFlags)
    IN IF command.flags = {} THEN command.text
       ELSE ReplaceLastChar(command.text \o VacuumOptionList(command.flags), ")") \o " "

DeparseVacuumColumnNames(columnNameList) ==
    IF columnNameList = NIL THEN "" ELSE " (" \o CommaList(columnNameList)

get_rel_name(relationId) == CHOOSE name \in DOMAIN PgClass : PgClass[name] = relationId

RECURSIVE VacuumTaskLoop(_, _, _, _, _, _)
VacuumTaskLoop(shardIntervalList, i, taskId, tableName, vacuumOptions, vacuumColumnList) ==
    IF i > Len(shardIntervalList) THEN NIL
    ELSE LET shardId == shardIntervalList[i]
             task == [jobId |-> INVALID_JOB_ID,
                      taskId |-> taskId,
                      taskType |-> VACUUM_ANALYZE_TASK,
                      queryString |-> <<DeparseVacuumStmtPrefix(vacuumOptions),
                                        get_namespace_name(0), tableName, shardId,
                                        DeparseVacuumColumnNames(vacuumColumnList)>>,
                      anchorShardId |-> shardId,
                      taskPlacementList |-> FinalizedShardPlacementList(shardId)]
         IN <<task>> \o VacuumTaskLoop(shardIntervalList, i + 1, taskId + 1, tableName,
                                        vacuumOptions, vacuumColumnList)

VacuumTaskList(relationId, vacuumOptions, vacuumColumnList) ==
    VacuumTaskLoop(LoadShardIntervalList(relationId), 1, 1, get_rel_name(relationId),
                   vacuumOptions, vacuumColumnList)

(***************************************************************************)
(* SpecPlan also applies PlanRenameStmt to RENAME statements and           *)
(* VacuumTaskList to VACUUM and ANALYZE statements.                        *)
(***************************************************************************)
PlanRenameStatements ==
    { RenameStmt(renameType, "OBJECT_TABLE", relation, missing_ok) :
        renameType \in {"OBJECT_TABLE", "OBJECT_COLUMN", "OBJECT_TABCONSTRAINT",
                        "OBJECT_INDEX"},
        relation \in {"orders", "local_t", "orders_idx", "missing"},
        missing_ok \in BOOLEAN }

CallPlanRenameStmt ==
    /\ planStmt.type = "none"
    /\ \E stmt \in PlanRenameStatements :
        /\ planStmt' = stmt
        /\ planResult' = PlanRenameStmt(stmt)
    /\ UNCHANGED <<catalogVars, taskVars, lockVars, utilityVars, sessionVars>>

\* the flags DeparseVacuumStmtPrefix knows
VacuumOptionFlags ==
    {VACOPT_VACUUM, VACOPT_ANALYZE, VACOPT_VERBOSE, VACOPT_FREEZE, VACOPT_FULL,
     VACOPT_DISABLE_PAGE_SKIPPING}

VacuumColumnLists == { NIL, <<"dist_col">>, <<"dist_col", "plain_col">> }

\* VacuumTaskList applied to a distributed table, for every combination of flags
CallVacuumTaskList ==
    /\ planStmt.type = "none"
    /\ \E vacuumFlags \in SUBSET VacuumOptionFlags,
          relation \in {"orders", "warehouses", "events"},
          vacuumColumnList \in VacuumColumnLists :
        /\ planStmt' = VacuumStmt(vacuumFlags, <<VacuumRelation(relation, vacuumColumnList)>>)
        /\ planResult' = [prefix |-> DeparseVacuumStmtPrefix(vacuumFlags),
                          taskList |-> VacuumTaskList(PgClass[relation], vacuumFlags,
                                                      vacuumColumnList)]
    /\ UNCHANGED <<catalogVars, taskVars, lockVars, utilityVars, sessionVars>>

NextPlan == CallPlanAlterTableStmt \/ CallPlanRenameStmt \/ CallVacuumTaskList

SpecPlan == InitPlan /\ [][NextPlan]_vars

(***************************************************************************)
(* SpecBuild: one task list builder (DDLTaskList, InterShardDDLTaskList or *)
(* VacuumTaskList) run call by call, next to a session that changes the    *)
(* state of shard placements under the exclusive shard metadata lock.      *)
(***************************************************************************)
ShareLock == "ShareLock"
ExclusiveLock == "ExclusiveLock"

BuilderCall(call, arg, shards) == [call |-> call, arg |-> arg, shards |-> shards]

\* the shard metadata locks after the holder has locked every shard of the list
LockShardListMetadata(locks, holder, shardIntervalList, lockMode) ==
    locks \cup { [holder |-> holder, shardId |-> shardIntervalList[i], mode |-> lockMode] :
                    i \in DOMAIN shardIntervalList }

\* a share lock waits for the exclusive lock of another holder, and the other way round
LockGranted(locks, holder, shardId) ==
    ~ \E l \in locks : l.shardId = shardId /\ l.holder # holder

\* the number of rounds of the loop: foreach over the shard list, forboth over the left
\* and right shard lists
BuilderLoopLength(b) ==
    IF b.fn = "InterShardDDLTaskList" /\ Len(b.rightShardList) < Len(b.shardIntervalList)
    THEN Len(b.rightShardList) ELSE Len(b.shardIntervalList)

\* mutant: the placement lists are looked up first and the shards locked afterwards
NextBuilderCall_LookupFirst(b) ==
    IF b.pc = "returned" THEN "none"
    ELSE IF b.i <= BuilderLoopLength(b) THEN "FinalizedShardPlacementList"
    ELSE IF b.pc = "loaded" THEN "LockShardListMetadata"
    ELSE "return"

\* the call the builder makes next, the shard lists being loaded
NextBuilderCall(b) ==
    IF b.pc = "returned" THEN "none"
    ELSE IF b.pc = "loaded" THEN "LockShardListMetadata"
    ELSE IF b.i <= BuilderLoopLength(b) THEN "FinalizedShardPlacementList"
    ELSE "return"

\* the task of one round of the loop
BuilderTask(b) ==
    LET shardId == b.shardIntervalList[b.i]
    IN IF b.fn = "DDLTaskList"
       THEN DDLTaskLoop(<<shardId>>, 1, b.i, TaskCommand, NIL)[1]
       ELSE IF b.fn = "InterShardDDLTaskList"
       THEN InterShardTaskLoop(b.relationId, b.rightRelationId, <<shardId>>,
                               <<b.rightShardList[b.i]>>, 1, b.i, TaskCommand, NIL)[1]
       ELSE VacuumTaskLoop(<<shardId>>, 1, b.i, get_rel_name(b.relationId),
                           {VACOPT_VACUUM}, NIL)[1]

BuilderFunctions ==
    { [fn |-> "DDLTaskList", relationId |-> r, rightRelationId |-> InvalidOid] :
        r \in TaskRelations }
    \cup { [fn |-> "VacuumTaskList", relationId |-> r, rightRelationId |-> InvalidOid] :
             r \in TaskRelations }
    \cup { [fn |-> "InterShardDDLTaskList", relationId |-> p[1], rightRelationId |-> p[2]] :
             p \in { q \in TaskRelations \X TaskRelations : q[1] # q[2] } }

InitBuild ==
    /\ LockIdle
    /\ SessionIdle
    /\ PlanIdle
    /\ UtilityIdle
    /\ \E leftMethod \in {DISTRIBUTE_BY_HASH, DISTRIBUTE_BY_APPEND} :
        /\ pgDistPartition = (1 :> leftMethod) @@ (2 :> DISTRIBUTE_BY_NONE)
        /\ \E nl \in ShardCounts(leftMethod) :
            /\ pgDistShard = (1 :> ShardIdsOf(1, nl)) @@ (2 :> ShardIdsOf(2, 1))
            /\ pgDistPlacement =
                   [s \in Range(ShardIdsOf(1, nl)) \cup Range(ShardIdsOf(2, 1)) |->
                       AllFinalized]
    /\ taskCall = [fn |-> "none"]
    /\ taskList = NIL
    /\ BuildIdle

\* the builder is entered and loads the shard lists; VacuumTaskList locks the relation
\* before it does
BuilderLoadShards ==
    /\ builder.fn = "none"
    /\ \E call \in BuilderFunctions :
        /\ builder' = [fn |-> call.fn, relationId |-> call.relationId,
                       rightRelationId |-> call.rightRelationId,
                       pc |-> "loaded",
                       shardIntervalList |-> LoadShardIntervalList(call.relationId),
                       rightShardList |->
                           IF call.fn = "InterShardDDLTaskList"
                           THEN ExtendedRightShardList(call.relationId, call.rightRelationId)
                           ELSE NIL,
                       i |-> 1,
                       taskList |-> NIL]
        /\ builderCalls' =
               (IF call.fn = "VacuumTaskList"
                THEN <<BuilderCall("LockRelationOid", call.relationId, NIL)>> ELSE << >>)
               \o <<BuilderCall("LoadShardIntervalList", call.relationId,
                                LoadShardIntervalList(call.relationId))>>
    /\ UNCHANGED <<catalogVars, taskCall, taskList, shardLocks, lockVars, sessionVars, planVars, utilityVars>>

\* LockShardListMetadata(shardIntervalList, ShareLock); the call waits while a shard of
\* the list is locked exclusively
BuilderLockShards ==
    /\ builder.fn # "none"
    /\ NextBuilderCall(builder) = "LockShardListMetadata"
    /\ \A shardId \in Range(builder.shardIntervalList) :
          LockGranted(shardLocks, "builder", shardId)
    /\ shardLocks' = LockShardListMetadata(shardLocks, "builder",
                                           builder.shardIntervalList, ShareLock)
    /\ builder' = [builder EXCEPT !.pc = "locked"]
    /\ builderCalls' = Append(builderCalls,
                              BuilderCall("LockShardListMetadata", ShareLock,
                                          builder.shardIntervalList))
    /\ UNCHANGED <<catalogVars, taskCall, taskList, lockVars, sessionVars, planVars, utilityVars>>

\* one round of the loop: the task of the shard, with its finalized placements
BuilderLookupPlacements ==
    /\ builder.fn # "none"
    /\ NextBuilderCall(builder) = "FinalizedShardPlacementList"
    /\ builder' = [builder EXCEPT !.i = @ + 1,
                                  !.taskList = Append(@, BuilderTask(builder))]
    /\ builderCalls' = Append(builderCalls,
                              BuilderCall("FinalizedShardPlacementList",
                                          builder.shardIntervalList[builder.i],
                                          <<builder.shardIntervalList[builder.i]>>))
    /\ UNCHANGED <<catalogVars, taskCall, taskList, shardLocks, lockVars, sessionVars, planVars, utilityVars>>

BuilderReturn ==
    /\ builder.fn # "none"
    /\ NextBuilderCall(builder) = "return"
    /\ builder' = [builder EXCEPT !.pc = "returned"]
    /\ UNCHANGED <<catalogVars, taskCall, taskList, shardLocks, builderCalls, lockVars, sessionVars, planVars, utilityVars>>

\* another session locks the metadata of a shard exclusively to change its placements
BeginPlacementUpdate ==
    /\ ~ \E l \in shardLocks : l.holder = "writer"
    /\ \E shardId \in DOMAIN pgDistPlacement :
        /\ LockGranted(shardLocks, "writer", shardId)
        /\ shardLocks' = LockShardListMetadata(shardLocks, "writer", <<shardId>>,
                                               ExclusiveLock)
    /\ UNCHANGED <<catalogVars, taskCall, taskList, builder, builderCalls, lockVars, sessionVars, planVars, utilityVars>>

\* it marks one of two finalized placements of the shard inactive and ends
EndPlacementUpdate ==
    /\ \E l \in shardLocks :
        /\ l.holder = "writer"
        /\ \E n \in DOMAIN pgDistPlacement[l.shardId] :
            /\ pgDistPlacement[l.shardId][n].shardState = FILE_FINALIZED
            /\ Len(FinalizedShardPlacementList(l.shardId)) > 1
            /\ pgDistPlacement' =
                   [pgDistPlacement EXCEPT ![l.shardId][n].shardState = FILE_INACTIVE]
        /\ shardLocks' = shardLocks \ {l}
    /\ UNCHANGED <<pgDistPartition, pgDistShard, taskCall, taskList, builder, builderCalls, lockVars, sessionVars, planVars, utilityVars>>

NextBuild ==
    \/ BuilderLoadShards
    \/ BuilderLockShards
    \/ BuilderLookupPlacements
    \/ BuilderReturn
    \/ BeginPlacementUpdate
    \/ EndPlacementUpdate

SpecBuild == InitBuild /\ [][NextBuild]_vars

\* mutant: a statement without tables is passed over in silence
IsDistributedVacuumStmt_Silent(vacuumStmt, vacuumRelationIdList) ==
    [distributeStmt |-> FALSE, warnings |-> << >>]

\* the result and the warnings reported on the way
IsDistributedVacuumStmt(vacuumStmt, vacuumRelationIdList) ==
    LET distributedRelationCount ==
            Cardinality({ i \in DOMAIN vacuumRelationIdList :
                            /\ OidIsValid(vacuumRelationIdList[i])
                            /\ IsDistributedTable(vacuumRelationIdList[i]) })
        unqualified == IF Len(vacuumRelationIdList) = 0
                       THEN <<"WARN_NOT_PROPAGATING_PROVIDE_A_TABLE">> ELSE << >>
    IN IF distributedRelationCount = 0
       THEN [distributeStmt |-> FALSE, warnings |-> unqualified]
       ELSE IF ~EnableDDLPropagation
       THEN [distributeStmt |-> FALSE,
             warnings |-> unqualified \o <<"WARN_NOT_PROPAGATING_PROPAGATION_DISABLED">>]
       ELSE [distributeStmt |-> TRUE, warnings |-> unqualified]

\* mutant: the position advances only over the distributed tables
NextRelationIndex_OverDistributed(relationIndex, distributed) ==
    IF distributed THEN relationIndex + 1 ELSE relationIndex

\* line 1477: relationIndex++ for every table of the statement
NextRelationIndex(relationIndex, distributed) == relationIndex + 1

\* lines 1465-1467 and 2410-2412: the protocol in force is saved and replaced by bare
SaveCommitProtocol(protocol) ==
    [current |-> COMMIT_PROTOCOL_BARE, saved |-> protocol.current]

\* the Assert of lines 1465 and 2410, and the save that follows it
SaveEvent(protocol) ==
    Event("SaveCommitProtocol", protocol, protocol.saved = COMMIT_PROTOCOL_BARE)

\* mutant: the protocol is saved before the vacuum of every distributed table
SavesCommitProtocol_EveryTable(vacuumStmt, executedVacuumCount) ==
    VACOPT_VACUUM \in vacuumStmt.options

\* line 1462
SavesCommitProtocol(vacuumStmt, executedVacuumCount) ==
    executedVacuumCount = 0 /\ VACOPT_VACUUM \in vacuumStmt.options

\* the loop over the tables; the tasks of the table at position failAt fail
RECURSIVE VacuumExecuteLoop(_, _, _, _, _, _, _)
VacuumExecuteLoop(vacuumStmt, relationIdList, i, relationIndex, failAt, executedVacuumCount, protocol) ==
    IF i > Len(relationIdList)
    THEN [executed |-> << >>, error |-> "none", protocol |-> protocol]
    ELSE LET relationId == relationIdList[i]
             distributed == IsDistributedTable(relationId)
             saves == distributed /\ SavesCommitProtocol(vacuumStmt, executedVacuumCount)
             afterSave == IF saves THEN SaveCommitProtocol(protocol) ELSE protocol
             vacuumColumnList == VacuumColumnList(vacuumStmt, relationIndex)
             tasks == VacuumTaskList(relationId, vacuumStmt.options, vacuumColumnList)
             call == [relationId |-> relationId, taskList |-> tasks, ok |-> failAt # i,
                      saves |-> IF saves THEN <<protocol>> ELSE << >>]
             rest == VacuumExecuteLoop(vacuumStmt, relationIdList, i + 1,
                                       NextRelationIndex(relationIndex, distributed),
                                       failAt,
                                       IF distributed THEN executedVacuumCount + 1
                                       ELSE executedVacuumCount,
                                       afterSave)
         IN IF ~distributed THEN rest
            ELSE IF failAt = i
            THEN [executed |-> <<call>>, error |-> "ERR_TASK_FAILED", protocol |-> afterSave]
            ELSE [executed |-> <<call>> \o rest.executed, error |-> rest.error,
                  protocol |-> rest.protocol]

RECURSIVE VacuumRelationIds(_, _)
VacuumRelationIds(vacuumRelationList, i) ==
    IF i > Len(vacuumRelationList) THEN [oids |-> << >>, error |-> "none"]
    ELSE LET r == RangeVarGetRelid(vacuumRelationList[i], FALSE)
             rest == VacuumRelationIds(vacuumRelationList, i + 1)
         IN IF r.error # "none" THEN [oids |-> << >>, error |-> r.error]
            ELSE [oids |-> <<r.oid>> \o rest.oids, error |-> rest.error]

(***************************************************************************)
(* The statements of the session.                                          *)
(***************************************************************************)
UniqueOn(conname, keys) == IndexConstraint("CONSTR_UNIQUE", conname, keys, NULL)

AlterCommandLists ==
    { << AlterTableCmd("AT_AddColumn", "new_col", ColumnDef("int", << >>)) >>,
      << AlterTableCmd("AT_AddColumn", "new_col",
                       ColumnDef("int", <<Constraint("CONSTR_CHECK", NULL, NULL)>>)) >>,
      << AlterTableCmd("AT_AddColumn", "new_col",
                       ColumnDef("int", <<Constraint("CONSTR_UNIQUE", "uq_col", NULL)>>)) >>,
      << AlterTableCmd("AT_AddColumn", "new_col",
                       ColumnDef("int", <<Constraint("CONSTR_UNIQUE", NULL, NULL)>>)) >>,
      << AlterTableCmd("AT_AddColumn", "new_col",
                       ColumnDef("int", <<Constraint("CONSTR_PRIMARY", NULL, NULL)>>)) >>,
      << AlterTableCmd("AT_AddColumn", "new_col",
                       ColumnDef("int", <<Constraint("CONSTR_FOREIGN", NULL,
                                                     "warehouses")>>)) >>,
      << AlterTableCmd("AT_AddColumn", "new_col",
                       ColumnDef("int", <<Constraint("CONSTR_FOREIGN", "fk_col", "local_t"),
                                          Constraint("CONSTR_UNIQUE", "uq_col", NULL)>>)) >>,
      << AlterTableCmd("AT_DropConstraint", "fk_to_ref", NoDef) >>,
      << AlterTableCmd("AT_DropConstraint", "fk_plain", NoDef),
         AlterTableCmd("AT_DropConstraint", "fk_to_ref", NoDef) >>,
      << AlterTableCmd("AT_DropConstraint", "fk_plain", NoDef),
         AlterTableCmd("AT_SetTableSpace", "fast_disk", NoDef) >>,
      << AlterTableCmd("AT_SetTableSpace", "fast_disk", NoDef) >>,
      << AlterTableCmd("AT_SetTableSpace", "fast_disk", NoDef),
         AlterTableCmd("AT_AddColumn", "new_col", ColumnDef("int", << >>)) >>,
      << AlterTableCmd("AT_AddConstraint", NULL, UniqueOn(NULL, <<"dist_col">>)) >>,
      << AlterTableCmd("AT_AddColumn", "new_col", ColumnDef("int", << >>)),
         AlterTableCmd("AT_AddConstraint", NULL, ForeignKey(NULL, "warehouses")) >>,
      << AlterTableCmd("AT_AttachPartition", NULL, PartitionCmd("missing")),
         AlterTableCmd("AT_SetTableSpace", "fast_disk", NoDef) >>,
      << AlterTableCmd("AT_AttachPartition", NULL, PartitionCmd("missing")),
         AlterTableCmd("AT_AddConstraint", NULL, UniqueOn(NULL, <<"dist_col">>)) >>,
      << AlterTableCmd("AT_AddConstraint", NULL, ForeignKey("fk_new", "warehouses")) >>,
      << AlterTableCmd("AT_AddConstraint", NULL,
                       UniqueOn("uq_new", <<"plain_col", "dist_col">>)) >>,
      << AlterTableCmd("AT_AddConstraint", NULL, UniqueOn("uq_new", <<"plain_col">>)) >>,
      << AlterTableCmd("AT_AddConstraint", NULL,
                       IndexConstraint("CONSTR_PRIMARY", "pk_new", <<"dist_col">>, NULL)) >>,
      << AlterTableCmd("AT_AddConstraint", NULL,
                       IndexConstraint("CONSTR_EXCLUSION", "ex_new",
                                       <<"dist_col", "plain_col">>, <<"=", "&&">>)) >>,
      << AlterTableCmd("AT_AddConstraint", NULL,
                       IndexConstraint("CONSTR_EXCLUSION", "ex_new",
                                       <<"dist_col">>, <<"&&">>)) >>,
      << AlterTableCmd("AT_DropColumn", "dist_col", NoDef) >>,
      << AlterTableCmd("AT_AlterColumnType", "dist_col", ColumnDef("bigint", << >>)) >>,
      << AlterTableCmd("AT_DropNotNull", "dist_col", NoDef) >>,
      << AlterTableCmd("AT_ColumnDefault", "dist_col", NoDef) >>,
      << AlterTableCmd("AT_AddColumn", "new_col", ColumnDef("int", << >>)),
         AlterTableCmd("AT_DropColumn", "dist_col", NoDef) >>,
      << AlterTableCmd("AT_AttachPartition", NULL, PartitionCmd("local_t")) >>,
      << AlterTableCmd("AT_AttachPartition", NULL, PartitionCmd("items")) >>,
      << AlterTableCmd("AT_AttachPartition", NULL, PartitionCmd("orders_2019")) >>,
      << AlterTableCmd("AT_AttachPartition", NULL, PartitionCmd("local_p")) >>,
      << AlterTableCmd("AT_AttachPartition", NULL, PartitionCmd("local_t")),
         AlterTableCmd("AT_AddColumn", "new_col",
                       ColumnDef("int", <<Constraint("CONSTR_CHECK", NULL, NULL)>>)) >>,
      << AlterTableCmd("AT_AddColumn", "new_col", ColumnDef("int", << >>)),
         AlterTableCmd("AT_AttachPartition", NULL, PartitionCmd("local_t")) >>,
      << AlterTableCmd("AT_AttachPartition", NULL, PartitionCmd("missing")),
         AlterTableCmd("AT_AddColumn", "new_col", ColumnDef("int", << >>)) >>,
      << AlterTableCmd("AT_AddConstraint", NULL,
                       UniqueOn("uq_new", <<"plain_col", "dist_col">>)),
         AlterTableCmd("AT_AddColumn", "new_col", ColumnDef("int", << >>)) >>,
      << AlterTableCmd("AT_AddColumn", "new_col", ColumnDef("int", << >>)),
         AlterTableCmd("AT_AddConstraint", NULL,
                       UniqueOn("uq_new", <<"plain_col", "dist_col">>)) >>,
      << AlterTableCmd("AT_DetachPartition", NULL, PartitionCmd("items")),
         AlterTableCmd("AT_AddColumn", "new_col", ColumnDef("int", << >>)) >>,
      << AlterTableCmd("AT_AddColumn", "new_col", ColumnDef("int", << >>)),
         AlterTableCmd("AT_DetachPartition", NULL, PartitionCmd("items")) >> }

AlterIndexCommandLists ==
    { << AlterTableCmd("AT_SetRelOptions", NULL, NoDef) >>,
      << AlterTableCmd("AT_SetTableSpace", "fast_disk", NoDef) >>,
      << AlterTableCmd("AT_ResetRelOptions", NULL, NoDef),
         AlterTableCmd("AT_SetTableSpace", "fast_disk", NoDef) >>,
      << AlterTableCmd("AT_SetNotNull", "plain_col", NoDef) >> }

AlterStatements ==
    { AlterTableStmt(relation, FALSE, cmds) :
        relation \in {"orders", "warehouses", "events", "local_t"},
        cmds \in AlterCommandLists }
    \cup { AlterTableStmt("orders_idx", FALSE, cmds) : cmds \in AlterIndexCommandLists }

DropTables == {"orders", "items", "local_t"}

DropStatements ==
    { DropStmt("OBJECT_TABLE", objects) :
        objects \in UNION { [1..n -> DropTables] : n \in 1..MaxCmds } }

RenameStatements ==
    { RenameStmt(renameType, "OBJECT_TABLE", relation, FALSE) :
        renameType \in {"OBJECT_COLUMN", "OBJECT_TABCONSTRAINT"},
        relation \in {"orders", "local_t"} }

VacuumTargets ==
    { VacuumRelation("orders", << >>), VacuumRelation("orders", <<"dist_col">>),
      VacuumRelation("local_t", <<"plain_col">>),
      VacuumRelation("items", <<"plain_col", "fk_col">>) }

VacuumStatements ==
    { VacuumStmt(options, rels) :
        options \in { {VACOPT_VACUUM}, {VACOPT_ANALYZE},
                      {VACOPT_VACUUM, VACOPT_ANALYZE, VACOPT_VERBOSE} },
        rels \in UNION { [1..n -> VacuumTargets] : n \in 0..MaxRels } }

(***************************************************************************)
(* TRUNCATE (tablecmds.c).  The catalog's foreign keys into the reference  *)
(* table make every other distributed table a referencing relation of it.  *)
(***************************************************************************)
TruncateStmt(relations) == [type |-> "TruncateStmt", relations |-> relations]

\* cacheEntry->referencingRelationsViaForeignKey
ReferencingRelationsViaForeignKey(relationId) ==
    IF IsReferenceTable(relationId) THEN <<5, 3, 1>> ELSE NIL

\* the worker nodes hold metadata when relations are synced to them
ClusterHasKnownMetadataWorkers == syncedRelations # {}

GetLocalGroupId == IF isCoordinator THEN 0 ELSE 1

\* the active primary worker nodes, in the order the node list returns them
ActivePrimaryNodeList == CHOOSE list \in Perms(LockWorkerNodes) : TRUE

\* heap_openrv raises when the relation does not exist
heap_openrv(relation) == RangeVarGetRelid(relation, FALSE)

SingleReplicatedTable(relationId) ==
    \A i \in DOMAIN pgDistShard[relationId] :
        Len(FinalizedShardPlacementList(pgDistShard[relationId][i])) <= 1

EnsurePartitionTableNotReplicated(relationId) ==
    IF PartitionedTable(relationId) /\ ~SingleReplicatedTable(relationId)
    THEN "ERR_PARTITION_TABLE_REPLICATED" ELSE "none"

RECURSIVE ErrorIfUnsupportedTruncateStmt(_, _)
ErrorIfUnsupportedTruncateStmt(truncateStatement, i) ==
    IF i > Len(truncateStatement.relations) THEN "none"
    ELSE LET relationId == RangeVarGetRelid(truncateStatement.relations[i], TRUE).oid
         IN IF IsDistributedTable(relationId)
               /\ get_rel_relkind(relationId) = RELKIND_FOREIGN_TABLE
            THEN "ERR_TRUNCATE_DISTRIBUTED_FOREIGN_TABLE"
            ELSE ErrorIfUnsupportedTruncateStmt(truncateStatement, i + 1)

RECURSIVE EnsurePartitionTableNotReplicatedForTruncate(_, _)
EnsurePartitionTableNotReplicatedForTruncate(truncateStatement, i) ==
    IF i > Len(truncateStatement.relations) THEN "none"
    ELSE LET relation == heap_openrv(truncateStatement.relations[i])
             check == IF IsDistributedTable(relation.oid)
                      THEN EnsurePartitionTableNotReplicated(relation.oid) ELSE "none"
         IN IF relation.error # "none" THEN relation.error
            ELSE IF check # "none" THEN check
            ELSE EnsurePartitionTableNotReplicatedForTruncate(truncateStatement, i + 1)

\* TRUE when SetLocalMultiShardModifyModeToSequential is called
ExecuteTruncateStmtSequentialIfNecessary(command) ==
    \E i \in DOMAIN command.relations :
        LET relationId == RangeVarGetRelid(command.relations[i], FALSE).oid
        IN /\ IsDistributedTable(relationId)
           /\ PartitionMethod(relationId) = DISTRIBUTE_BY_NONE
           /\ TableReferenced(relationId)

list_member_oid(list, oid) == \E i \in DOMAIN list : list[i] = oid

list_append_unique_oid(list, oid) == IF list_member_oid(list, oid) THEN list ELSE Append(list, oid)

RECURSIVE AppendReferencingTables(_, _, _)
AppendReferencingTables(distributedRelationList, referencingTableList, i) ==
    IF i > Len(referencingTableList) THEN distributedRelationList
    ELSE AppendReferencingTables(
             list_append_unique_oid(distributedRelationList, referencingTableList[i]),
             referencingTableList, i + 1)

\* mutant: a relation already in the list is added once more
TruncatedRelationAlreadyListed_Never(distributedRelationList, relationId) == FALSE

\* lines 267-271
TruncatedRelationAlreadyListed(distributedRelationList, relationId) ==
    list_member_oid(distributedRelationList, relationId)

\* lines 253-288: the relations to lock, in the order they are collected
RECURSIVE TruncatedRelationLoop(_, _, _)
TruncatedRelationLoop(truncateStatement, i, distributedRelationList) ==
    IF i > Len(truncateStatement.relations) THEN distributedRelationList
    ELSE LET relationId == heap_openrv(truncateStatement.relations[i]).oid
         IN IF ~IsDistributedTable(relationId)
               \/ TruncatedRelationAlreadyListed(distributedRelationList, relationId)
            THEN TruncatedRelationLoop(truncateStatement, i + 1, distributedRelationList)
            ELSE TruncatedRelationLoop(truncateStatement, i + 1,
                     AppendReferencingTables(
                         Append(distributedRelationList, relationId),
                         ReferencingRelationsViaForeignKey(relationId), 1))

\* the call of AcquireDistributedLockOnRelations it makes, if any
LockTruncatedRelationMetadataInWorkers(truncateStatement) ==
    IF ~ClusterHasKnownMetadataWorkers THEN [locks |-> FALSE, relationIdList |-> NIL]
    ELSE LET distributedRelationList == TruncatedRelationLoop(truncateStatement, 1, NIL)
         IN [locks |-> distributedRelationList # NIL,
             relationIdList |-> distributedRelationList]

\* the lock actions as events
LockEvents(actions) ==
    [k \in DOMAIN actions |->
        Event(actions[k].kind, <<actions[k].relationId, actions[k].node.groupId>>, TRUE)]

\* mutant: the distributed locks are requested before the statement is validated
ProcessTruncateStatement_LocksFirst(truncateStatement) ==
    LET lock == LockTruncatedRelationMetadataInWorkers(truncateStatement)
        unsupported == ErrorIfUnsupportedTruncateStmt(truncateStatement, 1)
    IN [error |-> unsupported, setSequential |-> FALSE,
        events |-> <<Event("AcquireDistributedLockOnRelations", lock.relationIdList, TRUE),
                     Event("ErrorIfUnsupportedTruncateStmt", truncateStatement.relations,
                           unsupported = "none")>>]

\* lines 119-125: the error raised, whether the execution mode was switched, and the
\* steps taken in order
ProcessTruncateStatement(truncateStatement) ==
    LET unsupported == ErrorIfUnsupportedTruncateStmt(truncateStatement, 1)
        replicated == EnsurePartitionTableNotReplicatedForTruncate(truncateStatement, 1)
        sequential == ExecuteTruncateStmtSequentialIfNecessary(truncateStatement)
        lock == LockTruncatedRelationMetadataInWorkers(truncateStatement)
        validated == <<Event("ErrorIfUnsupportedTruncateStmt", truncateStatement.relations,
                             unsupported = "none")>>
        checked == validated
                   \o <<Event("EnsurePartitionTableNotReplicatedForTruncate",
                              truncateStatement.relations, replicated = "none")>>
        switched == checked
                    \o (IF sequential
                        THEN <<Event("SetLocalMultiShardModifyModeToSequential",
                                     truncateStatement.relations, TRUE)>>
                        ELSE << >>)
    IN IF unsupported # "none"
       THEN [error |-> unsupported, setSequential |-> FALSE, events |-> validated]
       ELSE IF replicated # "none"
       THEN [error |-> replicated, setSequential |-> FALSE, events |-> checked]
       ELSE [error |-> "none", setSequential |-> sequential,
             events |-> switched
                 \o (IF lock.locks
                     THEN <<Event("AcquireDistributedLockOnRelations",
                                  lock.relationIdList, TRUE)>>
                          \o LockEvents(AcquireDistributedLockOnRelations(
                                            lock.relationIdList, ActivePrimaryNodeList,
                                            GetLocalGroupId))
                     ELSE << >>)]

\* lines 371-374
PreProcessUtility(stmt) ==
    IF IsA(stmt, "TruncateStmt") THEN ProcessTruncateStatement(stmt)
    ELSE [error |-> "none", setSequential |-> FALSE, events |-> << >>]

TruncateTargets == {"orders", "warehouses", "local_t", "archive_ft", "missing"}

TruncateStatements ==
    { TruncateStmt(relations) :
        relations \in UNION { [1..n -> TruncateTargets] : n \in 1..MaxRels } }

UtilityStatements ==
    IndexStatements \cup AlterStatements \cup DropStatements \cup RenameStatements
        \cup VacuumStatements \cup TruncateStatements

InitUtility ==
    /\ ClusterCatalog
    /\ TasksIdle
    /\ PlanIdle
    /\ CallIdle
    /\ syncedRelations \in { {}, DOMAIN pgDistPartition }
    /\ sessState = << >>
    /\ sessGroup = << >>
    /\ sessRelList = << >>
    /\ sessPlan = << >>
    /\ sessPos = << >>
    /\ heldLocks = {}
    /\ \E t \in TransactionStates :
        /\ inTransactionBlock = t.block
        /\ parallelQueryExecuted = t.parallel
    /\ MultiShardConnectionType \in {PARALLEL_CONNECTION, SEQUENTIAL_CONNECTION}
    /\ shouldInvalidateForeignKeyGraph = FALSE
    /\ EnableDDLPropagation \in BOOLEAN
    /\ isCoordinator \in BOOLEAN
    /\ MultiShardCommitProtocol \in {COMMIT_PROTOCOL_1PC, COMMIT_PROTOCOL_2PC}
    /\ SavedMultiShardCommitProtocol = COMMIT_PROTOCOL_BARE
    /\ pc = "idle"
    /\ parsetree = [type |-> "none"]
    /\ ddlJobs = NIL
    /\ currentJob = 0
    /\ pgIndexCommitted = "absent"
    /\ pgIndexUncommitted = "none"
    /\ xactCount = 1
    /\ executedTasks = {}
    /\ metadataSent = FALSE
    /\ commandError = "none"
    /\ history = << >>

\* lines 226-500
ProcessUtility ==
    /\ pc = "idle"
    /\ \E stmt \in UtilityStatements :
        \E pre \in {PreProcessUtility(stmt)} :
        \E plan \in {IF pre.error # "none" THEN NoPlan(pre.error) ELSE PlanUtility(stmt)} :
           /\ parsetree' = stmt
           /\ ddlJobs' = plan.ddlJobs
           /\ commandError' = plan.error
           /\ pc' = IF plan.error # "none" THEN "error" ELSE "planned"
           /\ history' = history
                  \o pre.events
                  \o [k \in 1..plan.marks |->
                         Event("MarkInvalidateForeignKeyGraph", k, TRUE)]
                  \o [k \in DOMAIN plan.sent |->
                         Event("SendCommandToWorkers", plan.sent[k], TRUE)]
                  \o (IF plan.error # "none"
                      THEN <<Event("ereport", plan.error, FALSE)>> ELSE << >>)
           /\ shouldInvalidateForeignKeyGraph' =
                  (shouldInvalidateForeignKeyGraph \/ plan.markFK)
           /\ MultiShardConnectionType' =
                  IF plan.setSequential \/ pre.setSequential THEN SEQUENTIAL_CONNECTION
                  ELSE MultiShardConnectionType
    /\ UNCHANGED <<utilityEnv, commitProtocol, currentJob, pgIndexCommitted,
                   pgIndexUncommitted, xactCount, executedTasks, metadataSent>>

\* lines 544-551: the local command.  CREATE INDEX CONCURRENTLY refuses to run in a
\* transaction block; it builds the index in transactions of its own and, as its last
\* step, marks the index valid in place.  A plain CREATE INDEX creates the index in
\* the current transaction.  Any other statement succeeds or is refused by the local
\* engine; it refuses to attach or detach a partition that does not exist.
NamesMissingPartition(stmt) ==
    /\ IsA(stmt, "AlterTableStmt")
    /\ \E i \in DOMAIN stmt.cmds :
          /\ stmt.cmds[i].subtype \in {"AT_AttachPartition", "AT_DetachPartition"}
          /\ stmt.cmds[i].def.name \notin DOMAIN PgClass

LocalErrors(stmt) ==
    IF IsA(stmt, "IndexStmt")
    THEN IF stmt.concurrent /\ inTransactionBlock
         THEN {"ERR_CANNOT_RUN_IN_TRANSACTION_BLOCK"} ELSE {"none"}
    ELSE IF IsA(stmt, "VacuumStmt") /\ VACOPT_VACUUM \in stmt.options /\ inTransactionBlock
    THEN {"ERR_CANNOT_RUN_IN_TRANSACTION_BLOCK"}
    ELSE IF NamesMissingPartition(stmt) THEN {"ERR_LOCAL_COMMAND_FAILED"}
    ELSE {"none", "ERR_LOCAL_COMMAND_FAILED"}

standard_ProcessUtility ==
    /\ pc = "planned"
    /\ \E localError \in LocalErrors(parsetree) :
        IF localError # "none"
        THEN /\ pc' = "error"
             /\ commandError' = localError
             /\ history' = Append(history, Event("ereport", localError, FALSE))
             /\ UNCHANGED <<pgIndexCommitted, pgIndexUncommitted, xactCount>>
        ELSE /\ pc' = IF IsA(parsetree, "AlterTableStmt") THEN "attach" ELSE "applied"
             /\ history' = Append(history,
                                  Event("standard_ProcessUtility", parsetree.type, TRUE))
             /\ IF ~IsA(parsetree, "IndexStmt")
                THEN UNCHANGED <<pgIndexCommitted, pgIndexUncommitted, xactCount>>
                ELSE IF parsetree.concurrent
                THEN /\ pgIndexCommitted' = "valid"
                     /\ xactCount' = xactCount + 1
                     /\ UNCHANGED pgIndexUncommitted
                ELSE /\ pgIndexUncommitted' = "valid"
                     /\ UNCHANGED <<pgIndexCommitted, xactCount>>
             /\ UNCHANGED commandError
    /\ UNCHANGED <<utilityEnv, sessionFlags, commitProtocol, parsetree, ddlJobs,
                   currentJob, executedTasks, metadataSent>>

(***************************************************************************)
(* ProcessAlterTableStmtAttachPartition (lines 569-574): after the local   *)
(* ALTER TABLE, a partition attached to a distributed parent is            *)
(* distributed like the parent.                                            *)
(***************************************************************************)
\* mutant: a distributed partition of a local parent is accepted
RECURSIVE AttachPartitionLoop_LocalParentAllowed(_, _, _)
AttachPartitionLoop_LocalParentAllowed(stmt, i, created) ==
    IF i > Len(stmt.cmds) THEN [error |-> "none", created |-> created]
    ELSE IF stmt.cmds[i].subtype # "AT_AttachPartition"
    THEN AttachPartitionLoop_LocalParentAllowed(stmt, i + 1, created)
    ELSE LET relationId == AlterTableLookupRelation(stmt).oid
             partition == RangeVarGetRelid(stmt.cmds[i].def.name, FALSE)
             isDistributed(r) == IsDistributedTable(r) \/ r \in Range(created)
         IN IF partition.error # "none"
            THEN [error |-> partition.error, created |-> created]
            ELSE IF isDistributed(relationId) /\ ~isDistributed(partition.oid)
            THEN AttachPartitionLoop_LocalParentAllowed(stmt, i + 1,
                                                        Append(created, partition.oid))
            ELSE AttachPartitionLoop_LocalParentAllowed(stmt, i + 1, created)

RECURSIVE AttachPartitionLoop(_, _, _)
AttachPartitionLoop(stmt, i, created) ==
    IF i > Len(stmt.cmds) THEN [error |-> "none", created |-> created]
    ELSE IF stmt.cmds[i].subtype # "AT_AttachPartition"
    THEN AttachPartitionLoop(stmt, i + 1, created)
    ELSE LET relationId == AlterTableLookupRelation(stmt).oid
             partition == RangeVarGetRelid(stmt.cmds[i].def.name, FALSE)
             isDistributed(r) == IsDistributedTable(r) \/ r \in Range(created)
         IN IF partition.error # "none"
            THEN [error |-> partition.error, created |-> created]
            ELSE IF ~isDistributed(relationId) /\ isDistributed(partition.oid)
            THEN [error |-> "ERR_DISTRIBUTED_PARTITION_OF_LOCAL_TABLE",
                  created |-> created]
            ELSE IF isDistributed(relationId) /\ ~isDistributed(partition.oid)
            THEN AttachPartitionLoop(stmt, i + 1, Append(created, partition.oid))
            ELSE AttachPartitionLoop(stmt, i + 1, created)

\* CreateDistributedTable(partition, ..., DISTRIBUTE_BY_HASH, parent): the partition
\* gets one shard for every shard of the parent
CreateDistributedTable(catalog, partitionRelationId, parentRelationId) ==
    LET shards == ShardIdsOf(partitionRelationId, Len(catalog.shard[parentRelationId]))
    IN [partition |-> catalog.partition @@ (partitionRelationId :> DISTRIBUTE_BY_HASH),
        shard |-> catalog.shard @@ (partitionRelationId :> shards),
        placement |-> catalog.placement @@ [s \in Range(shards) |-> AllFinalized]]

RECURSIVE CreateDistributedTables(_, _, _, _)
CreateDistributedTables(catalog, created, i, parentRelationId) ==
    IF i > Len(created) THEN catalog
    ELSE CreateDistributedTables(
             CreateDistributedTable(catalog, created[i], parentRelationId),
             created, i + 1, parentRelationId)

ProcessAlterTableStmtAttachPartition ==
    /\ pc = "attach"
    /\ LET attach == AttachPartitionLoop(parsetree, 1, << >>)
           catalog == CreateDistributedTables(
                          [partition |-> pgDistPartition, shard |-> pgDistShard,
                           placement |-> pgDistPlacement],
                          attach.created, 1, AlterTableLookupRelation(parsetree).oid)
       IN /\ pgDistPartition' = catalog.partition
          /\ pgDistShard' = catalog.shard
          /\ pgDistPlacement' = catalog.placement
          /\ history' = history
                 \o [k \in DOMAIN attach.created |->
                        Event("CreateDistributedTable", attach.created[k], TRUE)]
                 \o (IF attach.error # "none"
                     THEN <<Event("ereport", attach.error, FALSE)>> ELSE << >>)
          /\ commandError' = attach.error
          /\ pc' = IF attach.error # "none" THEN "error" ELSE "applied"
    /\ UNCHANGED <<taskVars, lockVars, planVars, callVars, inTransactionBlock,
                   parallelQueryExecuted,
                   EnableDDLPropagation, isCoordinator, sessionFlags, commitProtocol,
                   parsetree, ddlJobs, currentJob, pgIndexCommitted, pgIndexUncommitted,
                   xactCount, executedTasks, metadataSent>>

(***************************************************************************)
(* PostProcessUtility, entered only when the statement planned a job       *)
(* (line 577).                                                             *)
(***************************************************************************)
\* mutant: PostProcessUtility always returns early
PostProcessApplies_Never == FALSE

\* lines 2690-2706: the early returns
PostProcessApplies ==
    /\ IsA(parsetree, "IndexStmt")
    /\ parsetree.concurrent
    /\ IsCoordinator

\* what pg_index holds for the index once the open transaction has committed
CommittedAfterCommit ==
    IF pgIndexUncommitted = "none" THEN pgIndexCommitted ELSE pgIndexUncommitted

SkipPostProcessUtility ==
    /\ pc = "applied"
    /\ ddlJobs = NIL \/ ~PostProcessApplies
    /\ pc' = "postProcessed"
    /\ UNCHANGED <<utilityEnv, sessionFlags, commitProtocol, parsetree, ddlJobs, currentJob,
                   pgIndexCommitted, pgIndexUncommitted, xactCount, executedTasks,
                   metadataSent, commandError, history>>

\* lines 2709-2710: commit the current transaction and start anew
PostProcessCommit ==
    /\ pc = "applied"
    /\ ddlJobs # NIL /\ PostProcessApplies
    /\ pgIndexCommitted' = CommittedAfterCommit
    /\ pgIndexUncommitted' = "none"
    /\ history' = Append(history, Event("CommitTransactionCommand", "", TRUE))
    /\ xactCount' = xactCount + 1
    /\ pc' = "postProcessCommitted"
    /\ UNCHANGED <<utilityEnv, sessionFlags, commitProtocol, parsetree, ddlJobs, currentJob,
                   executedTasks, metadataSent, commandError>>

\* lines 2713-2727: mark the index invalid in place, then commit and start anew
PostProcessMarkInvalid ==
    /\ pc = "postProcessCommitted"
    /\ pgIndexCommitted' = "invalid"
    /\ history' = history \o
                    << Event("index_set_state_flags", "INDEX_DROP_CLEAR_VALID", TRUE),
                       Event("CommitTransactionCommand", "", TRUE) >>
    /\ xactCount' = xactCount + 1
    /\ pc' = "postProcessInvalid"
    /\ UNCHANGED <<utilityEnv, sessionFlags, commitProtocol, parsetree, ddlJobs, currentJob,
                   pgIndexUncommitted, executedTasks, metadataSent, commandError>>

\* lines 2730-2743: mark the index valid in the open transaction
PostProcessMarkValid ==
    /\ pc = "postProcessInvalid"
    /\ pgIndexUncommitted' = "valid"
    /\ history' = Append(history, Event("CatalogTupleUpdate", "indisvalid = true", TRUE))
    /\ pc' = "postProcessed"
    /\ UNCHANGED <<utilityEnv, sessionFlags, commitProtocol, parsetree, ddlJobs, currentJob,
                   pgIndexCommitted, xactCount, executedTasks, metadataSent,
                   commandError>>

\* mutant: the jobs are executed before the constraint checks
StepsWithJobs_JobsFirst == <<"execute", "validate">>

\* lines 598-690: with jobs planned, the constraint checks of lines 610-682 come
\* first and the ExecuteDistributedDDLJob loop of lines 684-689 second
StepsWithJobs == <<"validate", "execute">>

\* lines 692-698: a VACUUM or ANALYZE is processed after the job loop
StepAfterJobs == IF IsA(parsetree, "VacuumStmt") THEN "vacuum" ELSE "done"

StepAfter(step) ==
    IF step = StepsWithJobs[1] THEN StepsWithJobs[2] ELSE StepAfterJobs

\* mutant: one invalidation for every mark of the command
FlushInvalidations_PerMark ==
    Cardinality({ i \in DOMAIN history : history[i].ev = "MarkInvalidateForeignKeyGraph" })

\* lines 840-844: the number of InvalidateForeignKeyGraph calls of the flush
FlushInvalidations == IF shouldInvalidateForeignKeyGraph THEN 1 ELSE 0

\* mutant: the flush leaves the flag as it is
InvalidateForeignKeyGraphForDDL_KeepsFlag ==
    /\ pc = "postProcessed"
    /\ history' = history
           \o <<Event("InvalidateForeignKeyGraphForDDL",
                      shouldInvalidateForeignKeyGraph, TRUE)>>
           \o [k \in 1..FlushInvalidations |->
                  Event("InvalidateForeignKeyGraph", "flush", TRUE)]
    /\ pc' = IF ddlJobs = NIL THEN StepAfterJobs ELSE StepsWithJobs[1]
    /\ currentJob' = IF ddlJobs = NIL THEN 0 ELSE 1
    /\ UNCHANGED <<utilityEnv, sessionFlags, commitProtocol, parsetree, ddlJobs,
                   pgIndexCommitted, pgIndexUncommitted, xactCount,
                   executedTasks, metadataSent, commandError>>

\* lines 595-598 and 838-846; without jobs the command is complete
InvalidateForeignKeyGraphForDDL ==
    /\ pc = "postProcessed"
    /\ history' = history
           \o <<Event("InvalidateForeignKeyGraphForDDL",
                      shouldInvalidateForeignKeyGraph, TRUE)>>
           \o [k \in 1..FlushInvalidations |->
                  Event("InvalidateForeignKeyGraph", "flush", TRUE)]
    /\ shouldInvalidateForeignKeyGraph' = FALSE
    /\ pc' = IF ddlJobs = NIL THEN StepAfterJobs ELSE StepsWithJobs[1]
    /\ currentJob' = IF ddlJobs = NIL THEN 0 ELSE 1
    /\ UNCHANGED <<utilityEnv, MultiShardConnectionType, commitProtocol, parsetree, ddlJobs,
                   pgIndexCommitted, pgIndexUncommitted, xactCount,
                   executedTasks, metadataSent, commandError>>

\* mutant: an error of the constraint checks is reported and the jobs run all the same
CheckConstraintsAfterLocalCommand_GoesOn ==
    /\ pc = "validate"
    /\ LET check == PostLocalConstraintChecks(parsetree)
       IN /\ history' = history
                 \o [k \in 1..check.warnings |->
                        Event("warning", "WARN_UNIQUE_ON_APPEND_TABLE", TRUE)]
                 \o [k \in 1..check.invalidations |->
                        Event("InvalidateForeignKeyGraph", "add foreign key", TRUE)]
                 \o (IF check.error # "none"
                     THEN <<Event("ereport", check.error, FALSE)>> ELSE << >>)
          /\ commandError' = check.error
          /\ pc' = StepAfter("validate")
    /\ UNCHANGED <<utilityEnv, sessionFlags, commitProtocol, parsetree, ddlJobs,
                   currentJob, pgIndexCommitted, pgIndexUncommitted, xactCount, executedTasks,
                   metadataSent>>

\* lines 598-682: the constraint checks of an ALTER TABLE that planned a job, made on
\* the table as the local command left it
CheckConstraintsAfterLocalCommand ==
    /\ pc = "validate"
    /\ LET check == PostLocalConstraintChecks(parsetree)
       IN /\ history' = history
                 \o [k \in 1..check.warnings |->
                        Event("warning", "WARN_UNIQUE_ON_APPEND_TABLE", TRUE)]
                 \o [k \in 1..check.invalidations |->
                        Event("InvalidateForeignKeyGraph", "add foreign key", TRUE)]
                 \o (IF check.error # "none"
                     THEN <<Event("ereport", check.error, FALSE)>> ELSE << >>)
          /\ commandError' = check.error
          /\ pc' = IF check.error # "none" THEN "error" ELSE StepAfter("validate")
    /\ UNCHANGED <<utilityEnv, sessionFlags, commitProtocol, parsetree, ddlJobs,
                   currentJob, pgIndexCommitted, pgIndexUncommitted, xactCount, executedTasks,
                   metadataSent>>

(***************************************************************************)
(* ExecuteDistributedDDLJob                                                *)
(***************************************************************************)
Job == ddlJobs[currentJob]

TaskIds(job) == { job.taskList[i].taskId : i \in DOMAIN job.taskList }

RemainingTasks == { t \in TaskIds(Job) : <<currentJob, t>> \notin executedTasks }

\* mutant: the session's connection type is not looked at
RunsSequentially_FlagOnly(job) == job.concurrentIndexCmd \/ job.executeSequentially

\* lines 2397-2398 and 2416
RunsSequentially(job) ==
    \/ job.concurrentIndexCmd
    \/ MultiShardConnectionType = SEQUENTIAL_CONNECTION
    \/ job.executeSequentially

\* the tasks that may be sent next: the first remaining one of the list in sequential
\* mode, any remaining one in parallel mode
SendableTasks ==
    IF RunsSequentially(Job)
    THEN { t \in RemainingTasks : \A u \in RemainingTasks : t <= u }
    ELSE RemainingTasks

\* mutant: the caught error is thrown again as it is
CatchConcurrentIndexFailure_Rethrow(error) == error

\* lines 2437-2445: whatever was caught, this error is raised
CatchConcurrentIndexFailure(error) == "ERR_CONCURRENT_INDEX_COMMAND_FAILED"

RaisedBy(job, error) ==
    IF job.concurrentIndexCmd THEN CatchConcurrentIndexFailure(error) ELSE error

\* mutant: the metadata workers are told first, whatever the job
FirstStepOfJob_MetadataFirst(job) ==
    IF ShouldSyncTableMetadata(job.targetRelationId) THEN "metadata" ELSE "tasks"

\* lines 2377-2379: only a job that is not a concurrent index build starts with the
\* metadata workers; line 2416: a concurrent one starts with its tasks
FirstStepOfJob(job) ==
    IF ~job.concurrentIndexCmd /\ ShouldSyncTableMetadata(job.targetRelationId)
    THEN "metadata" ELSE "tasks"

\* lines 2372-2375 and 2410-2412
BeginExecuteDistributedDDLJob ==
    /\ pc = "execute"
    /\ LET error == IF EnsureCoordinator # "none" THEN EnsureCoordinator
                    ELSE EnsurePartitionTableNotReplicated(Job.targetRelationId)
       IN IF error # "none"
          THEN /\ pc' = "error"
               /\ commandError' = error
               /\ history' = history
                      \o << Event("ExecuteDistributedDDLJob", currentJob, TRUE),
                            Event("ereport", error, FALSE) >>
               /\ UNCHANGED commitProtocol
          ELSE /\ pc' = FirstStepOfJob(Job)
               /\ LET protocol == [current |-> MultiShardCommitProtocol,
                                   saved |-> SavedMultiShardCommitProtocol]
                      afterSave == IF Job.concurrentIndexCmd
                                   THEN SaveCommitProtocol(protocol) ELSE protocol
                  IN /\ MultiShardCommitProtocol' = afterSave.current
                     /\ SavedMultiShardCommitProtocol' = afterSave.saved
                     /\ history' = history
                            \o << Event("ExecuteDistributedDDLJob", currentJob, TRUE) >>
                            \o (IF Job.concurrentIndexCmd
                                THEN << SaveEvent(protocol) >> ELSE << >>)
               /\ UNCHANGED commandError
    /\ metadataSent' = FALSE
    /\ UNCHANGED <<utilityEnv, sessionFlags, parsetree, ddlJobs, currentJob,
                   pgIndexCommitted, pgIndexUncommitted, xactCount, executedTasks>>

\* what fetch_search_path(false) returns: the schemas of the search path that exist,
\* without the implicit ones.  The default search path ("$user", public) of a session
\* whose user has no schema of its own resolves to the schema public alone.
DefaultSearchPath == <<1>>

SearchPaths == { << >>, DefaultSearchPath, <<2, 1>>, <<3>> }

quote_identifier(ident) ==
    IF ident \in {"public"} THEN ident ELSE "\"" \o ident \o "\""

\* the quoted names of the schemas that still exist, separated by commas
RECURSIVE CurrentSearchPathLoop(_, _, _)
CurrentSearchPathLoop(searchPathList, i, schemaAdded) ==
    IF i > Len(searchPathList) THEN ""
    ELSE LET schemaName == get_namespace_name(searchPathList[i])
         IN IF schemaName = NULL
            THEN CurrentSearchPathLoop(searchPathList, i + 1, schemaAdded)
            ELSE (IF schemaAdded THEN "," ELSE "") \o quote_identifier(schemaName)
                     \o CurrentSearchPathLoop(searchPathList, i + 1, TRUE)

CurrentSearchPath(searchPathList) ==
    LET currentSearchPath == CurrentSearchPathLoop(searchPathList, 1, FALSE)
    IN IF currentSearchPath # "" THEN currentSearchPath ELSE NULL

SetSearchPathToCurrentSearchPathCommand(searchPathList) ==
    LET currentSearchPath == CurrentSearchPath(searchPathList)
    IN IF currentSearchPath = NULL THEN NULL
       ELSE "SET search_path TO " \o currentSearchPath \o ";"

\* mutant: the command is relayed without the directive that disables DDL propagation
MetadataCommandList_NoDirective(job, setSearchPathCommand) ==
    (IF setSearchPathCommand # NULL THEN <<setSearchPathCommand>> ELSE << >>)
        \o <<job.commandString>>

\* lines 2381-2394 and 2420-2434
MetadataCommandList(job, setSearchPathCommand) ==
    <<DISABLE_DDL_PROPAGATION>>
        \o (IF setSearchPathCommand # NULL THEN <<setSearchPathCommand>> ELSE << >>)
        \o <<job.commandString>>

\* SendBareCommandListToWorkers takes the whole list in one call; SendCommandToWorkers
\* is called once for every command, and the call at position failAt raises
MetadataSendEvents(job, commandList, failAt) ==
    IF job.concurrentIndexCmd
    THEN <<Event("SendBareCommandListToWorkers", commandList, failAt = 0)>>
    ELSE [k \in 1..(IF failAt = 0 THEN Len(commandList) ELSE failAt) |->
             Event("SendCommandToWorkers", commandList[k], k # failAt)]

MetadataFailurePoints(job, commandList) ==
    IF job.concurrentIndexCmd THEN {1} ELSE DOMAIN commandList

SendMetadataCommands ==
    /\ pc = "metadata"
    /\ \E searchPathList \in SearchPaths :
        history' = history
            \o <<Event("fetch_search_path", searchPathList, TRUE)>>
            \o MetadataSendEvents(
                   Job,
                   MetadataCommandList(
                       Job, SetSearchPathToCurrentSearchPathCommand(searchPathList)),
                   0)
    /\ metadataSent' = TRUE
    /\ pc' = IF Job.concurrentIndexCmd THEN "jobDone" ELSE "tasks"
    /\ UNCHANGED <<utilityEnv, sessionFlags, commitProtocol, parsetree, ddlJobs, currentJob,
                   pgIndexCommitted, pgIndexUncommitted, xactCount, executedTasks,
                   commandError>>

SendMetadataCommandsFails ==
    /\ pc = "metadata"
    /\ \E searchPathList \in SearchPaths :
       \E commandList \in {MetadataCommandList(
                               Job, SetSearchPathToCurrentSearchPathCommand(searchPathList))} :
       \E failAt \in MetadataFailurePoints(Job, commandList) :
        history' = history
            \o <<Event("fetch_search_path", searchPathList, TRUE)>>
            \o MetadataSendEvents(Job, commandList, failAt)
            \o <<Event("ereport", RaisedBy(Job, "ERR_WORKER_COMMAND_FAILED"), FALSE)>>
    /\ commandError' = RaisedBy(Job, "ERR_WORKER_COMMAND_FAILED")
    /\ pc' = "error"
    /\ UNCHANGED <<utilityEnv, sessionFlags, commitProtocol, parsetree, ddlJobs, currentJob,
                   pgIndexCommitted, pgIndexUncommitted, xactCount, executedTasks,
                   metadataSent>>

\* lines 2400-2404 and 2416: one task of the job runs on its placements
ExecuteTask ==
    /\ pc = "tasks"
    /\ \E taskId \in SendableTasks :
        /\ executedTasks' = executedTasks \cup {<<currentJob, taskId>>}
        /\ history' = Append(history, Event("task", taskId, TRUE))
    /\ UNCHANGED <<utilityEnv, sessionFlags, commitProtocol, pc, parsetree, ddlJobs,
                   currentJob, pgIndexCommitted, pgIndexUncommitted, xactCount,
                   metadataSent, commandError>>

ExecuteTaskFails ==
    /\ pc = "tasks"
    /\ \E taskId \in SendableTasks :
        history' = history \o
            << Event("task", taskId, FALSE),
               Event("ereport", RaisedBy(Job, "ERR_TASK_FAILED"), FALSE) >>
    /\ commandError' = RaisedBy(Job, "ERR_TASK_FAILED")
    /\ pc' = "error"
    /\ UNCHANGED <<utilityEnv, sessionFlags, commitProtocol, parsetree, ddlJobs, currentJob,
                   pgIndexCommitted, pgIndexUncommitted, xactCount, executedTasks,
                   metadataSent>>

\* all tasks of the job have run
FinishTasks ==
    /\ pc = "tasks"
    /\ RemainingTasks = {}
    /\ pc' = IF Job.concurrentIndexCmd /\ ShouldSyncTableMetadata(Job.targetRelationId)
             THEN "metadata" ELSE "jobDone"
    /\ UNCHANGED <<utilityEnv, sessionFlags, commitProtocol, parsetree, ddlJobs, currentJob,
                   pgIndexCommitted, pgIndexUncommitted, xactCount, executedTasks,
                   metadataSent, commandError, history>>

\* lines 684-689: on to the next job of the list
FinishJob ==
    /\ pc = "jobDone"
    /\ IF currentJob < Len(ddlJobs)
       THEN /\ currentJob' = currentJob + 1
            /\ pc' = "execute"
       ELSE /\ pc' = StepAfter("execute")
            /\ UNCHANGED currentJob
    /\ UNCHANGED <<utilityEnv, sessionFlags, commitProtocol, parsetree, ddlJobs,
                   pgIndexCommitted, pgIndexUncommitted, xactCount, executedTasks,
                   metadataSent, commandError, history>>

(***************************************************************************)
(* The end of the command.  Its transaction commits, or after an error     *)
(* aborts, which discards what the open transaction wrote; the commit      *)
(* protocol saved by a concurrent index job is restored at transaction     *)
(* end.                                                                    *)
(***************************************************************************)
(***************************************************************************)
(* ProcessVacuumStmt (lines 692-698 and 1421-1479).                        *)
(***************************************************************************)
VacuumFailurePoints(relationIdList) ==
    {0} \cup { i \in DOMAIN relationIdList : IsDistributedTable(relationIdList[i]) }

RECURSIVE VacuumEvents(_, _)
VacuumEvents(executed, k) ==
    IF k > Len(executed) THEN << >>
    ELSE [j \in DOMAIN executed[k].saves |-> SaveEvent(executed[k].saves[j])]
         \o << Event("ExecuteModifyTasksWithoutResults",
                     [relationId |-> executed[k].relationId,
                      taskList |-> executed[k].taskList],
                     executed[k].ok) >>
         \o VacuumEvents(executed, k + 1)

ProcessVacuumStmt ==
    /\ pc = "vacuum"
    /\ \E lookup \in {VacuumRelationIds(ExtractVacuumTargetRels(parsetree), 1)} :
        IF lookup.error # "none"
        THEN /\ history' = Append(history, Event("ereport", lookup.error, FALSE))
             /\ commandError' = lookup.error
             /\ pc' = "error"
             /\ UNCHANGED commitProtocol
        ELSE \E decision \in {IsDistributedVacuumStmt(parsetree, lookup.oids)} :
             \E failAt \in IF decision.distributeStmt
                           THEN VacuumFailurePoints(lookup.oids) ELSE {0} :
             \E loop \in {IF decision.distributeStmt
                           THEN VacuumExecuteLoop(parsetree, lookup.oids, 1, 0, failAt, 0,
                                                  [current |-> MultiShardCommitProtocol,
                                                   saved |-> SavedMultiShardCommitProtocol])
                           ELSE [executed |-> << >>, error |-> "none",
                                 protocol |-> [current |-> MultiShardCommitProtocol,
                                               saved |-> SavedMultiShardCommitProtocol]]} :
                /\ history' = history
                       \o [k \in DOMAIN decision.warnings |->
                              Event("warning", decision.warnings[k], TRUE)]
                       \o VacuumEvents(loop.executed, 1)
                       \o (IF loop.error # "none"
                           THEN <<Event("ereport", loop.error, FALSE)>> ELSE << >>)
                /\ MultiShardCommitProtocol' = loop.protocol.current
                /\ SavedMultiShardCommitProtocol' = loop.protocol.saved
                /\ commandError' = loop.error
                /\ pc' = IF loop.error # "none" THEN "error" ELSE "done"
    /\ UNCHANGED <<utilityEnv, sessionFlags, parsetree, ddlJobs, currentJob,
                   pgIndexCommitted, pgIndexUncommitted, xactCount, executedTasks,
                   metadataSent>>

RestoreCommitProtocol ==
    /\ MultiShardCommitProtocol' =
           IF SavedMultiShardCommitProtocol # COMMIT_PROTOCOL_BARE
           THEN SavedMultiShardCommitProtocol ELSE MultiShardCommitProtocol
    /\ SavedMultiShardCommitProtocol' = COMMIT_PROTOCOL_BARE

CommitTransaction ==
    /\ pc = "done"
    /\ pgIndexCommitted' = CommittedAfterCommit
    /\ pgIndexUncommitted' = "none"
    /\ RestoreCommitProtocol
    /\ pc' = "committed"
    /\ UNCHANGED <<utilityEnv, sessionFlags, parsetree, ddlJobs, currentJob, xactCount,
                   executedTasks, metadataSent, commandError, history>>

AbortTransaction ==
    /\ pc = "error"
    /\ pgIndexUncommitted' = "none"
    /\ RestoreCommitProtocol
    /\ pc' = "aborted"
    /\ UNCHANGED <<utilityEnv, sessionFlags, parsetree, ddlJobs, currentJob,
                   pgIndexCommitted, xactCount, executedTasks, metadataSent,
                   commandError, history>>

Init == InitUtility

Next ==
    \/ ProcessUtility
    \/ standard_ProcessUtility
    \/ ProcessAlterTableStmtAttachPartition
    \/ SkipPostProcessUtility
    \/ PostProcessCommit
    \/ PostProcessMarkInvalid
    \/ PostProcessMarkValid
    \/ InvalidateForeignKeyGraphForDDL
    \/ CheckConstraintsAfterLocalCommand
    \/ BeginExecuteDistributedDDLJob
    \/ SendMetadataCommands
    \/ SendMetadataCommandsFails
    \/ ExecuteTask
    \/ ExecuteTaskFails
    \/ FinishTasks
    \/ FinishJob
    \/ ProcessVacuumStmt
    \/ CommitTransaction
    \/ AbortTransaction

Spec == Init /\ [][Next]_vars

(***************************************************************************)
(* Concurrent index builds.                                                *)
(***************************************************************************)
ConcurrentIndexJob ==
    /\ IsA(parsetree, "IndexStmt")
    /\ parsetree.concurrent
    /\ ddlJobs # NIL

CommandEnded == pc \in {"committed", "aborted"}

AllTasksSucceeded ==
    \A j \in DOMAIN ddlJobs :
        \A t \in TaskIds(ddlJobs[j]) : <<j, t>> \in executedTasks

MetadataBroadcastSucceeded ==
    \A j \in DOMAIN ddlJobs :
        ShouldSyncTableMetadata(ddlJobs[j].targetRelationId) => metadataSent

SentToWorkers(e) ==
    e.ev \in {"task", "SendCommandToWorkers", "SendBareCommandListToWorkers"}

FailedSends == { i \in DOMAIN history : SentToWorkers(history[i]) /\ ~history[i].ok }

FlipsOfValidity ==
    { i \in DOMAIN history : history[i].ev \in {"index_set_state_flags", "CatalogTupleUpdate"} }

ShardBuilds == { i \in DOMAIN history : history[i].ev = "task" }

EventsOf(ev) == { i \in DOMAIN history : history[i].ev = ev }

(***************************************************************************)
(* C3: for a concurrent index build on a distributed table, in every       *)
(* reachable state the local index is durably (committed) valid only if    *)
(* every shard-level task and the metadata broadcast of the job            *)
(* succeeded; if one of them fails, the local index is invalid once the    *)
(* command has ended.                                                      *)
(***************************************************************************)
C3_ValidOnlyIfJobSucceeded ==
    ConcurrentIndexJob =>
        /\ pgIndexCommitted = "valid" => (AllTasksSucceeded /\ MetadataBroadcastSucceeded)
        /\ (CommandEnded /\ FailedSends # {}) => pgIndexCommitted = "invalid"

\* the command ended with the index valid although no shard-level task ran
C3_ValidWithoutShardBuilds ==
    /\ ConcurrentIndexJob
    /\ CommandEnded
    /\ pgIndexCommitted = "valid"
    /\ executedTasks = {}
    /\ ShardBuilds = {}

(***************************************************************************)
(* C4 as stated: the shard-level builds of a concurrent index build        *)
(* precede both flips of the local validity flag (the flip to invalid in   *)
(* place and the flip to valid in a further transaction).                  *)
(***************************************************************************)
C4_Original ==
    ConcurrentIndexJob =>
        \A i \in ShardBuilds : \A j \in FlipsOfValidity : i < j

(***************************************************************************)
(* C4 amended: the index is built locally; then the local transaction is   *)
(* committed and the flag is flipped to invalid in place; then, in a       *)
(* further transaction, the flag is flipped to valid; the shard-level      *)
(* builds run only after both flips, and the metadata broadcast after the  *)
(* shard-level builds.                                                     *)
(***************************************************************************)
C4_ShardBuildsFollowBothFlips ==
    ConcurrentIndexJob =>
        /\ \A j \in EventsOf("index_set_state_flags") :
              \E l \in EventsOf("standard_ProcessUtility"),
                 c \in EventsOf("CommitTransactionCommand") : l < c /\ c < j
        /\ \A k \in EventsOf("CatalogTupleUpdate") :
              \E j \in EventsOf("index_set_state_flags"),
                 c \in EventsOf("CommitTransactionCommand") :
                    /\ j < c /\ c < k
                    /\ history[j].xact < history[k].xact
        /\ \A i \in ShardBuilds :
              /\ \E j \in EventsOf("index_set_state_flags") : j < i
              /\ \E k \in EventsOf("CatalogTupleUpdate") : k < i
        /\ \A m \in EventsOf("SendBareCommandListToWorkers") :
              /\ \A i \in ShardBuilds : i < m
              /\ AllTasksSucceeded

\* a concurrent build that went through every phase and committed
C4_Witness ==
    /\ ConcurrentIndexJob
    /\ pc = "committed"
    /\ pgIndexCommitted = "valid"
    /\ Cardinality(ShardBuilds) > 1
    /\ EventsOf("SendBareCommandListToWorkers") # {}

(***************************************************************************)
(* C5: when a shard-level task or the metadata broadcast of a concurrent   *)
(* index job fails, ExecuteDistributedDDLJob ends with the single          *)
(* 'CONCURRENTLY-enabled index command failed' error and its hint, the     *)
(* remaining tasks are not executed, and no task is sent a second time.    *)
(***************************************************************************)
errhint(error) ==
    IF error = "ERR_CONCURRENT_INDEX_COMMAND_FAILED"
    THEN "Use DROP INDEX CONCURRENTLY IF EXISTS to remove the invalid index, then retry the original command."
    ELSE NULL

C5_SingleErrorNoRetry ==
    ConcurrentIndexJob =>
        /\ \A i \in FailedSends :
              /\ commandError = "ERR_CONCURRENT_INDEX_COMMAND_FAILED"
              /\ errhint(commandError) # NULL
              /\ EventsOf("ereport") = {i + 1}
              /\ history[i + 1].arg = commandError
              /\ \A k \in DOMAIN history : SentToWorkers(history[k]) => k <= i
              /\ pc \in {"error", "aborted"}
        /\ \A i \in ShardBuilds, k \in ShardBuilds :
              history[i].arg = history[k].arg => i = k

\* a task failed after another one succeeded and before the last one was sent
C5_Witness ==
    /\ ConcurrentIndexJob
    /\ pc = "aborted"
    /\ \E i \in FailedSends : history[i].ev = "task"
    /\ executedTasks # {}
    /\ Cardinality(executedTasks) + 1 < Len(ddlJobs[1].taskList)

\* the metadata broadcast failed after every task succeeded
C5_WitnessBroadcast ==
    /\ ConcurrentIndexJob
    /\ pc = "aborted"
    /\ AllTasksSucceeded
    /\ \E i \in FailedSends : history[i].ev = "SendBareCommandListToWorkers"

(***************************************************************************)
(* The foreign key graph flush inside one command.                         *)
(***************************************************************************)
FlushEvents == EventsOf("InvalidateForeignKeyGraphForDDL")

LocalApplyEvents == EventsOf("standard_ProcessUtility")

MarkEvents == EventsOf("MarkInvalidateForeignKeyGraph")

\* the graph invalidations made by the flush (and not by line 642)
FlushInvalidationEvents ==
    { i \in EventsOf("InvalidateForeignKeyGraph") : history[i].arg = "flush" }

\* what ExecuteDistributedDDLJob sends to the workers
JobExecutionEvents == { i \in DOMAIN history : SentToWorkers(history[i]) }

PastFlush == pc \in {"validate", "execute", "metadata", "tasks", "jobDone", "vacuum",
                     "done", "committed"}

C12_MarksCollapseToOneInvalidation ==
    (FlushEvents # {} /\ Cardinality(MarkEvents) >= 1)
        => Cardinality(FlushInvalidationEvents) = 1

C12_Witness ==
    /\ pc = "committed"
    /\ IsA(parsetree, "DropStmt")
    /\ Cardinality(MarkEvents) = 2
    /\ Cardinality(FlushInvalidationEvents) = 1

(***************************************************************************)
(* Rejections of ALTER TABLE and RENAME.                                   *)
(***************************************************************************)
\* the errors of the validators and of the classifier, those of the constraint checks
\* made after the local command included
RejectionErrors ==
    {"ERR_SERIAL_PSEUDOTYPE", "ERR_PARTITION_COLUMN",
     "ERR_ADD_CONSTRAINT_WITH_OTHER_SUBCOMMANDS", "ERR_CONSTRAINT_WITHOUT_NAME",
     "ERR_ATTACH_PARTITION_WITH_OTHER_SUBCOMMANDS", "ERR_NON_COLOCATED_PARTITION",
     "ERR_DETACH_PARTITION_WITH_OTHER_SUBCOMMANDS",
     "ERR_UNSUPPORTED_ALTER_TABLE_SUBCOMMAND", "ERR_UNSUPPORTED_ALTER_INDEX_SUBCOMMAND",
     "ERR_CONFLICTING_EXECUTION_MODE", "ERR_RENAME_CONSTRAINT_UNSUPPORTED",
     "ERR_DROP_PARTITION_COLUMN", "ERR_CONSTRAINT_WITHOUT_PARTITION_COLUMN",
     "ERR_ADD_COLUMN_WITH_CONSTRAINT", "ERR_FOREIGN_KEY_TO_LOCAL_TABLE",
     "ERR_FOREIGN_KEY_NOT_COLOCATED"}

Rejections ==
    { i \in EventsOf("ereport") : history[i].arg \in RejectionErrors }

\* everything the command made a worker do
WorkerCommunication ==
    { i \in DOMAIN history :
        SentToWorkers(history[i]) \/ history[i].ev = "CreateDistributedTable" }

(***************************************************************************)
(* C13: a rejection of an ALTER TABLE or RENAME by a validator or the      *)
(* classifier, the constraint checks after the local command included, is  *)
(* raised before the statement has sent anything to a worker.              *)
(***************************************************************************)
C13_RejectionBeforeWorkerCommunication ==
    (IsA(parsetree, "AlterTableStmt") \/ IsA(parsetree, "RenameStmt"))
        => \A r \in Rejections : \A w \in WorkerCommunication : r < w

C13_Witness ==
    /\ pc = "aborted"
    /\ IsA(parsetree, "AlterTableStmt")
    /\ ddlJobs # NIL
    /\ commandError = "ERR_CONSTRAINT_WITHOUT_PARTITION_COLUMN"
    /\ LocalApplyEvents # {}
    /\ WorkerCommunication = {}

(***************************************************************************)
(* The jobs of a command.                                                  *)
(***************************************************************************)
JobStartEvents == EventsOf("ExecuteDistributedDDLJob")

\* the errors raised inside ExecuteDistributedDDLJob
ExecutionErrors ==
    {"ERR_NOT_COORDINATOR", "ERR_PARTITION_TABLE_REPLICATED", "ERR_TASK_FAILED",
     "ERR_WORKER_COMMAND_FAILED", "ERR_CONCURRENT_INDEX_COMMAND_FAILED"}

\* the jobs passed to ExecuteDistributedDDLJob so far, in the order of the calls
StartedJobs == [k \in 1..Cardinality(JobStartEvents) |->
                   history[CHOOSE i \in JobStartEvents :
                               Cardinality({ j \in JobStartEvents : j <= i }) = k].arg]

OnlySubcommandTypes == {"AT_AddConstraint", "AT_AttachPartition", "AT_DetachPartition"}

\* the errors ErrorIfUnsupportedAlterTableStmt raises by itself
UnsupportedCommandErrors ==
    {"ERR_SERIAL_PSEUDOTYPE", "ERR_PARTITION_COLUMN",
     "ERR_ADD_CONSTRAINT_WITH_OTHER_SUBCOMMANDS", "ERR_CONSTRAINT_WITHOUT_NAME",
     "ERR_ATTACH_PARTITION_WITH_OTHER_SUBCOMMANDS", "ERR_NON_COLOCATED_PARTITION",
     "ERR_DETACH_PARTITION_WITH_OTHER_SUBCOMMANDS",
     "ERR_UNSUPPORTED_ALTER_TABLE_SUBCOMMAND"}

\* the command is an ALTER TABLE of a distributed table with more than one sub-command,
\* one of them ADD CONSTRAINT, ATTACH PARTITION or DETACH PARTITION
MixedAlterTable ==
    /\ IsA(parsetree, "AlterTableStmt")
    /\ parsetree.relation \in DOMAIN PgClass
    /\ PgClass[parsetree.relation] \in {1, 2, 3}
    /\ Len(parsetree.cmds) > 1
    /\ \E i \in DOMAIN parsetree.cmds : parsetree.cmds[i].subtype \in OnlySubcommandTypes

RejectedAtPlanningWith(errors) ==
    /\ pc \in {"error", "aborted"}
    /\ commandError \in errors
    /\ ddlJobs = NIL
    /\ LocalApplyEvents = {}
    /\ JobStartEvents = {}

(***************************************************************************)
(* C15 as stated: such a statement always fails with an UnsupportedCommand *)
(* error and plans no job.                                                 *)
(***************************************************************************)
C15_MixedAlterTableAlwaysRejected ==
    MixedAlterTable => RejectedAtPlanningWith(UnsupportedCommandErrors)

(***************************************************************************)
(* C15, amended: while DDL propagation is enabled, such a statement fails  *)
(* at planning, with an UnsupportedCommand error or with the lookup error  *)
(* of a partition that does not exist, and plans no job, wherever the      *)
(* sub-command stands in the list.                                         *)
(***************************************************************************)
C15_MixedAlterTableRejectedWhenPropagating ==
    (MixedAlterTable /\ EnableDDLPropagation)
        => RejectedAtPlanningWith(UnsupportedCommandErrors \cup {"ERR_RELATION_NOT_FOUND"})

C15_Witness ==
    /\ MixedAlterTable
    /\ EnableDDLPropagation
    /\ parsetree.cmds[2].subtype = "AT_AddConstraint"
    /\ pc = "aborted"
    /\ commandError = "ERR_ADD_CONSTRAINT_WITH_OTHER_SUBCOMMANDS"

(***************************************************************************)
(* ADD CONSTRAINT as the only sub-command.                                 *)
(***************************************************************************)
\* the command is ALTER TABLE orders ADD CONSTRAINT name UNIQUE / PRIMARY KEY / EXCLUDE
\* over columns that include the distribution column, with equality on it for EXCLUDE
SupportedAddConstraint ==
    /\ IsA(parsetree, "AlterTableStmt")
    /\ parsetree.relation = "orders"
    /\ Len(parsetree.cmds) = 1
    /\ parsetree.cmds[1].subtype = "AT_AddConstraint"
    /\ LET constraint == parsetree.cmds[1].def
       IN /\ constraint.contype \in IndexConstraintTypes
          /\ constraint.conname # NULL
          /\ \E k \in DOMAIN constraint.keys :
              /\ constraint.keys[k] = DistPartitionKey(PgClass["orders"])
              /\ constraint.contype = "CONSTR_EXCLUSION" => constraint.exclusionOps[k] = "="

\* no validator has rejected the command and it planned one job of one task per shard
AcceptedWithOneTaskPerShard ==
    /\ commandError \notin RejectionErrors
    /\ Rejections = {}
    /\ Len(ddlJobs) = 1
    /\ LET job == ddlJobs[1]
           shards == pgDistShard[job.targetRelationId]
       IN /\ job.targetRelationId = PgClass["orders"]
          /\ Len(job.taskList) = Len(shards)
          /\ \A k \in DOMAIN shards : job.taskList[k].anchorShardId = shards[k]

(***************************************************************************)
(* C16 as stated: such a command passes the validator at planning and the  *)
(* constraint checks after the local command, and yields one job with one  *)
(* task per shard.                                                         *)
(***************************************************************************)
C16_SupportedAddConstraintPlansJob ==
    SupportedAddConstraint => AcceptedWithOneTaskPerShard

(***************************************************************************)
(* C16, amended: while DDL propagation is enabled, such a command passes   *)
(* the validator at planning and the constraint checks after the local     *)
(* command, and yields one job with one task per shard.                    *)
(***************************************************************************)
C16_SupportedAddConstraintPlansJobWhenPropagating ==
    (SupportedAddConstraint /\ EnableDDLPropagation) => AcceptedWithOneTaskPerShard

C16_Witness ==
    /\ SupportedAddConstraint
    /\ EnableDDLPropagation
    /\ parsetree.cmds[1].def.contype = "CONSTR_EXCLUSION"
    /\ pc = "committed"
    /\ AcceptedWithOneTaskPerShard
    /\ Cardinality(ShardBuilds) = Len(pgDistShard[PgClass["orders"]])

(***************************************************************************)
(* Sub-commands on the distribution column.                                *)
(***************************************************************************)
PartitionColumnSubcommands ==
    {"AT_DropColumn", "AT_AlterColumnType", "AT_DropNotNull", "AT_ColumnDefault"}

PartitionColumnErrors == {"ERR_PARTITION_COLUMN", "ERR_DROP_PARTITION_COLUMN"}

\* the command is an ALTER TABLE of a distributed table with a sub-command of one of
\* the given types on the distribution column of the table
TouchesDistributionColumn(subtypes) ==
    /\ IsA(parsetree, "AlterTableStmt")
    /\ parsetree.relation \in DOMAIN PgClass
    /\ IsDistributedTable(PgClass[parsetree.relation])
    /\ \E i \in DOMAIN parsetree.cmds :
        /\ parsetree.cmds[i].subtype \in subtypes
        /\ parsetree.cmds[i].name # NULL
        /\ parsetree.cmds[i].name = DistPartitionKey(PgClass[parsetree.relation])

FailedBeforeLocalCommand ==
    /\ pc \in {"error", "aborted"}
    /\ commandError # "none"
    /\ LocalApplyEvents = {}
    /\ WorkerCommunication = {}

\* no column of a reference table counts as its distribution column
ReferenceTableExempt ==
    (IsA(parsetree, "AlterTableStmt") /\ parsetree.relation = "warehouses")
        => /\ commandError \notin PartitionColumnErrors
           /\ \A e \in EventsOf("ereport") : history[e].arg \notin PartitionColumnErrors

(***************************************************************************)
(* C17 as stated: DROP COLUMN, ALTER COLUMN TYPE, DROP NOT NULL or a       *)
(* default change on the distribution column always fails, with DDL        *)
(* propagation enabled or disabled; a reference table is exempt.           *)
(***************************************************************************)
C17_DistributionColumnAlwaysProtected ==
    /\ TouchesDistributionColumn(PartitionColumnSubcommands) => FailedBeforeLocalCommand
    /\ ReferenceTableExempt

(***************************************************************************)
(* C17, amended: DROP COLUMN, ALTER COLUMN TYPE, DROP NOT NULL or a        *)
(* default change on the distribution column always fails while DDL        *)
(* propagation is enabled; while it is disabled DROP COLUMN of the         *)
(* distribution column fails and the other three are not rejected; a       *)
(* reference table is exempt for every column.                             *)
(***************************************************************************)
C17_DistributionColumnProtectedWhenPropagating ==
    /\ (TouchesDistributionColumn(PartitionColumnSubcommands) /\ EnableDDLPropagation)
           => FailedBeforeLocalCommand
    /\ (TouchesDistributionColumn({"AT_DropColumn"}) /\ ~EnableDDLPropagation)
           => (FailedBeforeLocalCommand /\ commandError = "ERR_DROP_PARTITION_COLUMN")
    /\ (/\ TouchesDistributionColumn(PartitionColumnSubcommands)
        /\ ~TouchesDistributionColumn({"AT_DropColumn"})
        /\ ~EnableDDLPropagation)
           => commandError \notin PartitionColumnErrors
    /\ ReferenceTableExempt

C17_Witness ==
    /\ TouchesDistributionColumn({"AT_DropNotNull"})
    /\ EnableDDLPropagation
    /\ pc = "aborted"
    /\ commandError = "ERR_PARTITION_COLUMN"

(***************************************************************************)
(* VACUUM and ANALYZE.                                                     *)
(***************************************************************************)
VacuumExecutions == EventsOf("ExecuteModifyTasksWithoutResults")

NotPropagatingWarnings ==
    { i \in EventsOf("warning") :
        history[i].arg \in {"WARN_NOT_PROPAGATING_PROVIDE_A_TABLE",
                            "WARN_NOT_PROPAGATING_PROPAGATION_DISABLED"} }

VacuumProcessed == pc \in {"done", "committed"}

(***************************************************************************)
(* C18: a VACUUM or ANALYZE that names no table sends nothing to a worker  *)
(* and builds no task, whatever the DDL propagation setting; once it has   *)
(* been processed it has reported exactly one "not propagating" warning.   *)
(***************************************************************************)
C18_UnqualifiedVacuumNotPropagated ==
    (IsA(parsetree, "VacuumStmt") /\ parsetree.rels = << >>)
        => /\ VacuumExecutions = {}
           /\ WorkerCommunication = {}
           /\ ddlJobs = NIL
           /\ Cardinality(NotPropagatingWarnings) <= 1
           /\ VacuumProcessed
                  => /\ Cardinality(NotPropagatingWarnings) = 1
                     /\ \A i \in NotPropagatingWarnings :
                            history[i].arg = "WARN_NOT_PROPAGATING_PROVIDE_A_TABLE"

C18_Witness ==
    /\ IsA(parsetree, "VacuumStmt")
    /\ parsetree.rels = << >>
    /\ EnableDDLPropagation
    /\ pc = "committed"
    /\ Cardinality(NotPropagatingWarnings) = 1

\* the positions of the statement that name a distributed table, in statement order
DistributedTargets ==
    SelectSeq([i \in DOMAIN parsetree.rels |-> i],
              LAMBDA i : IsDistributedTable(PgClass[parsetree.rels[i].relation]))

\* the calls of ExecuteModifyTasksWithoutResults, in the order they were made
VacuumCalls ==
    [k \in 1..Cardinality(VacuumExecutions) |->
        history[CHOOSE i \in VacuumExecutions :
                    Cardinality({ j \in VacuumExecutions : j <= i }) = k]]

\* the call is for the table at the position, with one task for each of its shards,
\* every task carrying the columns given at that position
CallMatchesTarget(call, position) ==
    LET target == parsetree.rels[position]
        relationId == PgClass[target.relation]
        shards == pgDistShard[relationId]
        tasks == call.arg.taskList
    IN /\ call.arg.relationId = relationId
       /\ Len(tasks) = Len(shards)
       /\ \A t \in DOMAIN tasks :
           /\ tasks[t].anchorShardId = shards[t]
           /\ tasks[t].queryString[3] = target.relation
           /\ tasks[t].queryString[5] = DeparseVacuumColumnNames(target.va_cols)

(***************************************************************************)
(* C19: for a VACUUM or ANALYZE that names tables, the tasks are built and *)
(* executed for the named tables that are distributed, in statement        *)
(* order, each with the columns given at its own position, and only while  *)
(* DDL propagation is enabled; a failed execution ends the statement.      *)
(* With propagation disabled and a distributed table named, nothing is     *)
(* sent and one warning is reported.                                       *)
(***************************************************************************)
C19_VacuumExpandsDistributedTargets ==
    (IsA(parsetree, "VacuumStmt") /\ parsetree.rels # << >>)
        => /\ Len(VacuumCalls) <= Len(DistributedTargets)
           /\ \A k \in DOMAIN VacuumCalls :
               /\ CallMatchesTarget(VacuumCalls[k], DistributedTargets[k])
               /\ ~VacuumCalls[k].ok => k = Len(VacuumCalls) /\ pc \in {"error", "aborted"}
           /\ VacuumCalls # << >> => EnableDDLPropagation
           /\ (VacuumProcessed /\ EnableDDLPropagation)
                  => /\ Len(VacuumCalls) = Len(DistributedTargets)
                     /\ NotPropagatingWarnings = {}
           /\ (VacuumProcessed /\ ~EnableDDLPropagation)
                  => /\ WorkerCommunication = {}
                     /\ Cardinality(NotPropagatingWarnings) =
                            IF DistributedTargets # << >> THEN 1 ELSE 0

C19_Witness ==
    /\ IsA(parsetree, "VacuumStmt")
    /\ Len(parsetree.rels) = 2
    /\ parsetree.rels[1].relation = "local_t"
    /\ parsetree.rels[2] = VacuumRelation("orders", <<"dist_col">>)
    /\ pc = "committed"
    /\ Len(VacuumCalls) = 1
    /\ VacuumCalls[1].arg.taskList[1].queryString[5] = " (dist_col)"

(***************************************************************************)
(* The metadata commands of a job.                                         *)
(***************************************************************************)
\* the sends of ExecuteDistributedDDLJob to the workers that hold metadata
MetadataSends ==
    { i \in DOMAIN history :
        /\ history[i].ev \in {"SendCommandToWorkers", "SendBareCommandListToWorkers"}
        /\ \E j \in JobStartEvents : j < i }

\* the commands sent so far, in the order they were sent
RECURSIVE CommandsOf(_, _)
CommandsOf(i, sends) ==
    IF i > Len(history) THEN << >>
    ELSE (IF i \notin sends THEN << >>
          ELSE IF history[i].ev = "SendBareCommandListToWorkers" THEN history[i].arg
          ELSE <<history[i].arg>>)
         \o CommandsOf(i + 1, sends)

MetadataCommandsSent == CommandsOf(1, MetadataSends)

FetchedSearchPath == history[CHOOSE i \in EventsOf("fetch_search_path") : TRUE].arg

RelayedCommands(withSearchPath) ==
    <<DISABLE_DDL_PROPAGATION>>
        \o (IF withSearchPath
            THEN <<SetSearchPathToCurrentSearchPathCommand(FetchedSearchPath)>> ELSE << >>)
        \o <<ddlJobs[1].commandString>>

SearchPathDirectiveSent ==
    \E k \in DOMAIN MetadataCommandsSent :
        MetadataCommandsSent[k] = SetSearchPathToCurrentSearchPathCommand(FetchedSearchPath)

IsPrefix(s, t) == Len(s) <= Len(t) /\ s = SubSeq(t, 1, Len(s))

MetadataRelayedAs(expected) ==
    /\ IsPrefix(MetadataCommandsSent, expected)
    /\ metadataSent => MetadataCommandsSent = expected
    /\ \A i \in MetadataSends : ~history[i].ok => pc \in {"error", "aborted"}

MetadataRelay(withSearchPath) ==
    /\ MetadataSends # {} =>
           /\ ShouldSyncTableMetadata(ddlJobs[1].targetRelationId)
           /\ EventsOf("fetch_search_path") # {}
           /\ MetadataRelayedAs(RelayedCommands(withSearchPath))
    /\ metadataSent => MetadataSends # {}
    /\ \A i \in MetadataSends :
           (history[i].ev = "SendCommandToWorkers" /\ history[i].arg = QueryString(parsetree))
               => \E d \in MetadataSends :
                      d < i /\ history[d].arg = DISABLE_DDL_PROPAGATION /\ history[d].ok

(***************************************************************************)
(* C20 as stated: for a relation whose metadata is mirrored, the directive *)
(* disabling DDL propagation, then the search path directive only if the   *)
(* session has a non-default search path, then the command text; the       *)
(* command text never without the disabling directive before it; nothing   *)
(* when the metadata is not mirrored.                                      *)
(***************************************************************************)
C20_MetadataRelaySearchPathIfNotDefault ==
    /\ (EventsOf("fetch_search_path") # {})
           => /\ MetadataRelay(CurrentSearchPath(FetchedSearchPath) # NULL)
              /\ SearchPathDirectiveSent => FetchedSearchPath # DefaultSearchPath
    /\ (EventsOf("fetch_search_path") = {}) => MetadataSends = {}

(***************************************************************************)
(* C20, amended: for a relation whose metadata is mirrored, the directive  *)
(* disabling DDL propagation, then the search path directive whenever the  *)
(* search path of the session holds a schema that exists (the default      *)
(* search path included), then the command text; the command text never    *)
(* without the disabling directive before it; nothing when the metadata is *)
(* not mirrored.                                                           *)
(***************************************************************************)
C20_MetadataRelayInOrder ==
    /\ (EventsOf("fetch_search_path") # {})
           => MetadataRelay(CurrentSearchPath(FetchedSearchPath) # NULL)
    /\ (EventsOf("fetch_search_path") = {}) => MetadataSends = {}

C20_Witness ==
    /\ pc = "committed"
    /\ IsA(parsetree, "AlterTableStmt")
    /\ metadataSent
    /\ FetchedSearchPath = <<2, 1>>
    /\ MetadataCommandsSent = <<DISABLE_DDL_PROPAGATION,
                                "SET search_path TO \"Sales\",public;",
                                QueryString(parsetree)>>

(***************************************************************************)
(* Relations that cannot be resolved.                                      *)
(***************************************************************************)
Unresolvable(relation) == relation # NULL /\ relation \notin DOMAIN PgClass

\* the relation the ALTER TABLE or RENAME is applied to cannot be resolved
LeftUnresolved ==
    /\ planStmt.type \in {"AlterTableStmt", "RenameStmt"}
    /\ Unresolvable(planStmt.relation)

\* a sub-command names a referenced table or a partition that cannot be resolved
RightUnresolved ==
    /\ planStmt.type = "AlterTableStmt"
    /\ \E i \in DOMAIN planStmt.cmds :
        LET command == planStmt.cmds[i]
        IN \/ /\ command.subtype = "AT_AddConstraint"
              /\ command.def.contype = "CONSTR_FOREIGN"
              /\ Unresolvable(command.def.pktable)
           \/ /\ command.subtype = "AT_AddColumn"
              /\ \E k \in DOMAIN command.def.constraints :
                   /\ command.def.constraints[k].contype = "CONSTR_FOREIGN"
                   /\ Unresolvable(command.def.constraints[k].pktable)
           \/ /\ command.subtype \in {"AT_AttachPartition", "AT_DetachPartition"}
              /\ Unresolvable(command.def.name)

AddsIndexConstraintTo(relation) ==
    /\ IsA(parsetree, "AlterTableStmt")
    /\ parsetree.relation = relation
    /\ Len(parsetree.cmds) = 1
    /\ parsetree.cmds[1].subtype = "AT_AddConstraint"
    /\ parsetree.cmds[1].def.contype \in IndexConstraintTypes

\* the constraint checks that follow the local command have been made
ConstraintChecksRan ==
    /\ ddlJobs # NIL
    /\ pc \notin {"idle", "planned", "attach", "applied", "postProcessed", "validate"}
    /\ \E i \in DOMAIN history : history[i].ev = "InvalidateForeignKeyGraphForDDL"

AppendTableWarnings ==
    { i \in DOMAIN history : /\ history[i].ev = "warning"
                             /\ history[i].arg = "WARN_UNIQUE_ON_APPEND_TABLE" }

PartitionColumnRejections ==
    { i \in DOMAIN history : /\ history[i].ev = "ereport"
                             /\ history[i].arg = "ERR_CONSTRAINT_WITHOUT_PARTITION_COLUMN" }

\* the added constraint has the distribution column among its keys, with equality
AddedConstraintCoversDistributionColumn ==
    LET def == parsetree.cmds[1].def
    IN \E k \in DOMAIN def.keys :
          /\ def.keys[k] = "dist_col"
          /\ \/ def.contype \in {"CONSTR_UNIQUE", "CONSTR_PRIMARY"}
             \/ def.exclusionOps[k] = "="

(***************************************************************************)
(* C22 as stated: a UNIQUE, EXCLUDE or PRIMARY KEY constraint on an        *)
(* append-distributed table is reported as a warning and never rejected,   *)
(* whether or not it includes the distribution column.                     *)
(***************************************************************************)
C22_AppendConstraintOnlyWarned ==
    (AddsIndexConstraintTo("events") /\ ConstraintChecksRan)
        => (AppendTableWarnings # {} /\ PartitionColumnRejections = {})

(***************************************************************************)
(* C22, amended: a UNIQUE, EXCLUDE or PRIMARY KEY constraint on an         *)
(* append-distributed table is reported with one warning, and after the    *)
(* warning it is rejected with an error exactly when it does not include   *)
(* the distribution column with equality.                                  *)
(***************************************************************************)
C22_AppendConstraintWarnedThenChecked ==
    (AddsIndexConstraintTo("events") /\ ConstraintChecksRan)
        => /\ Cardinality(AppendTableWarnings) = 1
           /\ PartitionColumnRejections # {} <=> ~AddedConstraintCoversDistributionColumn
           /\ \A w \in AppendTableWarnings, e \in PartitionColumnRejections : w < e
           /\ PartitionColumnRejections # {} => pc \in {"error", "aborted"}

C22_Witness ==
    /\ AddsIndexConstraintTo("events")
    /\ ConstraintChecksRan
    /\ AddedConstraintCoversDistributionColumn
    /\ parsetree.cmds[1].def.contype = "CONSTR_EXCLUSION"
    /\ AppendTableWarnings # {}
    /\ pc = "committed"

(***************************************************************************)
(* Foreign-key checks first, reference tables exempt from the index checks *)
(***************************************************************************)
\* the statement adds a constraint, alone or with a column, so that
\* ErrorIfUnsupportedConstraint runs once the local command has been applied
AddsConstraints ==
    /\ IsA(parsetree, "AlterTableStmt")
    /\ \E i \in DOMAIN parsetree.cmds :
          \/ parsetree.cmds[i].subtype = "AT_AddConstraint"
          \/ /\ parsetree.cmds[i].subtype = "AT_AddColumn"
             /\ parsetree.cmds[i].def.constraints # << >>

\* a unique or exclusion index the statement adds lacks the distribution column
\* with equality; the column a statement adds is never the distribution column
AddsUncoveredIndex ==
    \E i \in DOMAIN parsetree.cmds :
        LET command == parsetree.cmds[i]
        IN \/ /\ command.subtype = "AT_AddConstraint"
              /\ command.def.contype \in IndexConstraintTypes
              /\ ~ \E k \in DOMAIN command.def.keys :
                     /\ command.def.keys[k] = "dist_col"
                     /\ \/ command.def.contype \in {"CONSTR_UNIQUE", "CONSTR_PRIMARY"}
                        \/ command.def.exclusionOps[k] = "="
           \/ /\ command.subtype = "AT_AddColumn"
              /\ \E k \in DOMAIN command.def.constraints :
                    command.def.constraints[k].contype \in {"CONSTR_UNIQUE", "CONSTR_PRIMARY"}

ForeignKeyRejections ==
    { i \in DOMAIN history : /\ history[i].ev = "ereport"
                             /\ history[i].arg \in {"ERR_FOREIGN_KEY_TO_LOCAL_TABLE",
                                                     "ERR_FOREIGN_KEY_NOT_COLOCATED"} }

(***************************************************************************)
(* C23: ErrorIfUnsupportedConstraint makes the foreign-key checks first,   *)
(* so a foreign-key error is raised before any index is looked at; on a    *)
(* reference table no unique, primary-key or exclusion index is rejected   *)
(* or warned about; on a table of any other distribution method the        *)
(* statement is rejected exactly when it adds a unique or exclusion index  *)
(* that lacks the distribution column with equality.                       *)
(***************************************************************************)
C23_ForeignKeysFirstReferenceTablesExempt ==
    (AddsConstraints /\ ConstraintChecksRan)
        => /\ ForeignKeyRejections # {} =>
                  (PartitionColumnRejections = {} /\ AppendTableWarnings = {})
           /\ parsetree.relation = "warehouses" =>
                  (PartitionColumnRejections = {} /\ AppendTableWarnings = {})
           /\ (parsetree.relation # "warehouses" /\ ForeignKeyRejections = {}) =>
                  (PartitionColumnRejections # {} <=> AddsUncoveredIndex)

C23_Witness ==
    /\ AddsConstraints
    /\ ConstraintChecksRan
    /\ parsetree.relation = "warehouses"
    /\ AddsUncoveredIndex
    /\ parsetree.cmds[1].subtype = "AT_AddConstraint"
    /\ pc = "committed"

(***************************************************************************)
(* The text of the VACUUM and ANALYZE tasks.                               *)
(***************************************************************************)
\* the text holds the given piece somewhere
Contains(text, piece) ==
    \E k \in 1..(Len(text) - Len(piece) + 1) : SubSeq(text, k, k + Len(piece) - 1) = piece

\* the names joined by commas
RECURSIVE JoinedByCommas(_)
JoinedByCommas(names) ==
    IF names = << >> THEN ""
    ELSE IF Len(names) = 1 THEN names[1]
    ELSE names[1] \o "," \o JoinedByCommas(Tail(names))

\* the command word of the statement and the options that remain beside it
RenderedCommand ==
    IF VACOPT_VACUUM \in planStmt.options THEN "VACUUM "
    ELSE IF VACOPT_VERBOSE \in planStmt.options THEN "ANALYZE VERBOSE "
    ELSE "ANALYZE "

RemainingOptions ==
    LET consumed == IF VACOPT_VACUUM \in planStmt.options THEN {VACOPT_VACUUM}
                    ELSE {VACOPT_ANALYZE, VACOPT_VERBOSE}
    IN SelectSeq(<<"ANALYZE", "DISABLE_PAGE_SKIPPING", "FREEZE", "FULL", "VERBOSE">>,
                 LAMBDA o : o \in planStmt.options \ consumed)

RenderedColumns ==
    LET columns == planStmt.rels[1].va_cols
    IN IF columns = << >> THEN "" ELSE " (" \o JoinedByCommas(columns) \o ")"

(***************************************************************************)
(* C24: for every combination of the option flags the prefix is the        *)
(* command word, then, only if options remain, one parenthesized           *)
(* comma-joined list in the order ANALYZE, DISABLE_PAGE_SKIPPING, FREEZE,  *)
(* FULL, VERBOSE and one space; it never holds empty parentheses or a      *)
(* comma before the closing parenthesis; and every task string is the      *)
(* prefix, the shard-qualified table name and the optional column list.    *)
(***************************************************************************)
C24_VacuumPrefixRendering ==
    planStmt.type = "VacuumStmt"
        => /\ planResult.prefix =
                  RenderedCommand \o
                  (IF RemainingOptions = << >> THEN ""
                   ELSE "(" \o JoinedByCommas(RemainingOptions) \o ") ")
           /\ ~Contains(planResult.prefix, "()")
           /\ ~Contains(planResult.prefix, ",)")
           /\ planResult.taskList # NIL
           /\ \A t \in DOMAIN planResult.taskList :
                  planResult.taskList[t].queryString =
                      <<planResult.prefix, "public", planStmt.rels[1].relation,
                        planResult.taskList[t].anchorShardId, RenderedColumns>>

C24_Witness ==
    /\ planStmt.type = "VacuumStmt"
    /\ planStmt.options = {VACOPT_VACUUM, VACOPT_ANALYZE, VACOPT_FREEZE, VACOPT_VERBOSE}
    /\ planResult.prefix = "VACUUM (ANALYZE,FREEZE,VERBOSE) "
    /\ planStmt.rels[1].va_cols # NIL
    /\ Len(planResult.taskList) > 1

(***************************************************************************)
(* TRUNCATE: the relations handed to the distributed lock step.            *)
(***************************************************************************)
TruncateErrors ==
    {"ERR_TRUNCATE_DISTRIBUTED_FOREIGN_TABLE", "ERR_RELATION_NOT_FOUND",
     "ERR_PARTITION_TABLE_REPLICATED"}

\* ProcessTruncateStatement has returned without an error
TruncateProcessed ==
    /\ IsA(parsetree, "TruncateStmt")
    /\ pc # "idle"
    /\ ~ \E i \in DOMAIN history : /\ history[i].ev = "ereport"
                                   /\ history[i].arg \in TruncateErrors

DistributedLockCalls ==
    { i \in DOMAIN history : history[i].ev = "AcquireDistributedLockOnRelations" }

\* the distributed relations the statement names; local_t is not distributed
NamedDistributedRelations ==
    { PgClass[name] : name \in Range(parsetree.relations) \cap {"orders", "warehouses"} }

\* the relations with a foreign key to one of them: orders, events and items reference
\* the reference table warehouses
ReferencingNamedRelations ==
    IF PgClass["warehouses"] \in NamedDistributedRelations
    THEN {PgClass["orders"], PgClass["events"], PgClass["items"]} ELSE {}

ActionsFor(s, relationId, node) ==
    { k \in DOMAIN sessPlan[s] : /\ sessPlan[s][k].relationId = relationId
                                 /\ sessPlan[s][k].node = node }

\* local node: an in-process lock and no command; other node: one remote command
LockActionFitsNode(s, action) ==
    IF action.node.groupId = sessGroup[s]
    THEN action.kind = "LockRelationOid" /\ action.command = << >>
    ELSE /\ action.kind = "SendCommandToWorker"
         /\ action.command = <<"SELECT lock_relation_if_exists(", action.relationId,
                                "ACCESS EXCLUSIVE", ")">>

(***************************************************************************)
(* C26 as stated: for every relation of the lock set the call performs     *)
(* exactly one lock action per worker node.                                *)
(***************************************************************************)
C26_OneLockActionPerRelationAndNode ==
    \A s \in Sessions :
        sessState[s] = "ended"
            => \A relationId \in Range(sessRelList[s]), node \in LockWorkerNodes :
                  /\ Cardinality(ActionsFor(s, relationId, node)) = 1
                  /\ \A k \in ActionsFor(s, relationId, node) :
                         LockActionFitsNode(s, sessPlan[s][k])

(***************************************************************************)
(* C26, amended: for every relation of the lock set whose metadata is      *)
(* synced to the workers the call performs exactly one lock action per     *)
(* worker node, an in-process lock on the local node and one remote        *)
(* command to any other node; for a relation whose metadata is not synced  *)
(* it performs no lock action at all.                                      *)
(***************************************************************************)
C26_OneLockActionPerSyncedRelationAndNode ==
    \A s \in Sessions :
        sessState[s] = "ended"
            => \A relationId \in Range(sessRelList[s]), node \in LockWorkerNodes :
                  /\ Cardinality(ActionsFor(s, relationId, node)) =
                         IF relationId \in syncedRelations THEN 1 ELSE 0
                  /\ \A k \in ActionsFor(s, relationId, node) :
                         LockActionFitsNode(s, sessPlan[s][k])

C26_Witness ==
    \E s \in Sessions :
        /\ sessState[s] = "ended"
        /\ sessGroup[s] = 2
        /\ sessRelList[s] = <<16390, 16385>>
        /\ 16385 \notin syncedRelations
        /\ Len(sessPlan[s]) = 2

(***************************************************************************)
(* Sub-commands outside the supported lists.                               *)
(***************************************************************************)
SupportedAlterIndexSubtypes ==
    {"AT_SetRelOptions", "AT_ResetRelOptions", "AT_ReplaceRelOptions"}

SupportedAlterTableSubtypes ==
    {"AT_AddColumn", "AT_DropColumn", "AT_ColumnDefault", "AT_AlterColumnType",
     "AT_DropNotNull", "AT_SetNotNull", "AT_AddConstraint", "AT_DropConstraint",
     "AT_AttachPartition", "AT_DetachPartition", "AT_EnableTrigAll", "AT_DisableTrigAll",
     "AT_ReplicaIdentity"} \cup SupportedAlterIndexSubtypes

\* an ALTER TABLE of a distributed table, or an ALTER INDEX of an index of one, that
\* has a sub-command outside the list supported for it
HasUnsupportedSubcommand ==
    /\ IsA(parsetree, "AlterTableStmt")
    /\ \/ /\ parsetree.relation \in {"orders", "warehouses", "events"}
          /\ \E i \in DOMAIN parsetree.cmds :
                parsetree.cmds[i].subtype \notin SupportedAlterTableSubtypes
       \/ /\ parsetree.relation = "orders_idx"
          /\ \E i \in DOMAIN parsetree.cmds :
                parsetree.cmds[i].subtype \notin SupportedAlterIndexSubtypes

ValidatorErrors == UnsupportedCommandErrors \cup {"ERR_UNSUPPORTED_ALTER_INDEX_SUBCOMMAND"}

(***************************************************************************)
(* C27 as stated: an ALTER TABLE of a distributed table with a sub-command *)
(* outside the supported list, and an ALTER INDEX of an index of a         *)
(* distributed table with a sub-command other than SET, RESET or replace   *)
(* of storage options, always fails with an UnsupportedCommand error and   *)
(* plans no job.                                                           *)
(***************************************************************************)
C27_UnsupportedSubcommandAlwaysRejected ==
    HasUnsupportedSubcommand => RejectedAtPlanningWith(ValidatorErrors)

(***************************************************************************)
(* C27, amended: while DDL propagation is enabled, such a statement fails  *)
(* at planning, with an UnsupportedCommand error or with the lookup error  *)
(* of a partition that does not exist, and plans no job.                   *)
(***************************************************************************)
C27_UnsupportedSubcommandRejectedWhenPropagating ==
    (HasUnsupportedSubcommand /\ EnableDDLPropagation)
        => RejectedAtPlanningWith(ValidatorErrors \cup {"ERR_RELATION_NOT_FOUND"})

C27_Witness ==
    /\ HasUnsupportedSubcommand
    /\ EnableDDLPropagation
    /\ parsetree.relation = "orders_idx"
    /\ Len(parsetree.cmds) = 2
    /\ pc = "aborted"
    /\ commandError = "ERR_UNSUPPORTED_ALTER_INDEX_SUBCOMMAND"

(***************************************************************************)
(* Constraints without a name.                                             *)
(***************************************************************************)
\* the sub-command is an ADD CONSTRAINT whose constraint has no name
AddsUnnamedConstraint(command) ==
    /\ command.subtype = "AT_AddConstraint"
    /\ command.def.conname = NULL

\* the sub-command is an ADD COLUMN with a PRIMARY KEY, UNIQUE, FOREIGN KEY or CHECK
\* constraint that has no name
AddsColumnWithUnnamedConstraint(command) ==
    /\ command.subtype = "AT_AddColumn"
    /\ \E c \in DOMAIN command.def.constraints :
          /\ command.def.constraints[c].conname = NULL
          /\ command.def.constraints[c].contype \in
                 {"CONSTR_PRIMARY", "CONSTR_UNIQUE", "CONSTR_FOREIGN", "CONSTR_CHECK"}

UnnamedConstraintOnDistributedTable ==
    /\ IsA(parsetree, "AlterTableStmt")
    /\ parsetree.relation \in {"orders", "warehouses", "events"}
    /\ \E i \in DOMAIN parsetree.cmds :
          AddsUnnamedConstraint(parsetree.cmds[i])
              \/ AddsColumnWithUnnamedConstraint(parsetree.cmds[i])

UnnamedAddConstraint ==
    /\ IsA(parsetree, "AlterTableStmt")
    /\ parsetree.relation \in {"orders", "warehouses", "events"}
    /\ \E i \in DOMAIN parsetree.cmds : AddsUnnamedConstraint(parsetree.cmds[i])

\* the rejections with ERRCODE_FEATURE_NOT_SUPPORTED of the validators and of the
\* constraint checks after the local command
ConstraintRejections ==
    ValidatorErrors \cup {"ERR_CONSTRAINT_WITHOUT_PARTITION_COLUMN",
                          "ERR_FOREIGN_KEY_TO_LOCAL_TABLE", "ERR_FOREIGN_KEY_NOT_COLOCATED",
                          "ERR_ADD_COLUMN_WITH_CONSTRAINT"}

\* the command has not passed the constraint checks that follow the local command
BeforeJobExecution ==
    /\ pc \in {"planned", "attach", "applied", "postProcessed", "validate", "error", "aborted"}
    /\ JobStartEvents = {}
    /\ WorkerCommunication = {}

EarlierErrors ==
    {"ERR_RELATION_NOT_FOUND", "ERR_CONFLICTING_EXECUTION_MODE", "ERR_LOCAL_COMMAND_FAILED"}

TruncateValidations == EventsOf("ErrorIfUnsupportedTruncateStmt")

TruncateReplicationChecks == EventsOf("EnsurePartitionTableNotReplicatedForTruncate")

SequentialSwitches == EventsOf("SetLocalMultiShardModifyModeToSequential")

\* the call of the distributed lock step and the lock actions it takes, on the local
\* node and on the other nodes
TruncateLockRequests ==
    { i \in DOMAIN history :
        history[i].ev \in {"AcquireDistributedLockOnRelations", "LockRelationOid",
                           "SendCommandToWorker"} }

\* every event of the first set comes before every event of the second
AllBefore(first, second) == \A i \in first, j \in second : i < j

\* the statement names a reference table that a foreign key references: warehouses,
\* which orders, events and items reference
TruncatesReferencedReferenceTable == "warehouses" \in Range(parsetree.relations)

(***************************************************************************)
(* C29: for a TRUNCATE, the validation of the targets comes first, then    *)
(* the replication check, then the switch to sequential execution, made    *)
(* exactly when the two checks passed and a named relation is a reference  *)
(* table referenced by a foreign key, then the distributed lock requests,  *)
(* and all of them before the local TRUNCATE; when the validation or the   *)
(* replication check fails, no lock is requested and the local TRUNCATE    *)
(* does not run.                                                           *)
(***************************************************************************)
C29_TruncateStepsInOrder ==
    IsA(parsetree, "TruncateStmt")
        => /\ TruncateValidations = {1}
           /\ Cardinality(TruncateReplicationChecks) <= 1
           /\ Cardinality(SequentialSwitches) <= 1
           /\ AllBefore(TruncateValidations, TruncateReplicationChecks)
           /\ AllBefore(TruncateReplicationChecks, SequentialSwitches)
           /\ AllBefore(TruncateReplicationChecks, TruncateLockRequests)
           /\ AllBefore(SequentialSwitches, TruncateLockRequests)
           /\ AllBefore(TruncateValidations \cup TruncateReplicationChecks
                            \cup SequentialSwitches \cup TruncateLockRequests,
                        LocalApplyEvents)
           /\ TruncateLockRequests # {} => TruncateReplicationChecks # {}
           /\ SequentialSwitches # {}
                  <=> (TruncateProcessed /\ TruncatesReferencedReferenceTable)
           /\ (SequentialSwitches # {} /\ pc = "planned")
                  => MultiShardConnectionType = SEQUENTIAL_CONNECTION
           /\ (\E i \in TruncateValidations \cup TruncateReplicationChecks : ~history[i].ok)
                  => /\ TruncateLockRequests = {}
                     /\ SequentialSwitches = {}
                     /\ LocalApplyEvents = {}
                     /\ pc \in {"error", "aborted"}

C29_Witness ==
    /\ IsA(parsetree, "TruncateStmt")
    /\ parsetree.relations = <<"orders", "warehouses">>
    /\ SequentialSwitches = {3}
    /\ \E i \in TruncateLockRequests : history[i].ev = "SendCommandToWorker"
    /\ LocalApplyEvents # {}
    /\ MultiShardConnectionType = SEQUENTIAL_CONNECTION

(***************************************************************************)
(* The task list builders: shard metadata locks and placement lookups.     *)
(***************************************************************************)
ShardLockCalls ==
    { k \in DOMAIN builderCalls : builderCalls[k].call = "LockShardListMetadata" }

PlacementLookups ==
    { k \in DOMAIN builderCalls : builderCalls[k].call = "FinalizedShardPlacementList" }

\* the builder holds the shared metadata lock of the shard
HoldsShareLock(shardId) ==
    [holder |-> "builder", shardId |-> shardId, mode |-> ShareLock] \in shardLocks

(***************************************************************************)
(* C30: in DDLTaskList, InterShardDDLTaskList and VacuumTaskList the       *)
(* shared shard metadata lock is taken, once, on every shard of the        *)
(* relation before the first placement list is looked up; from then to the *)
(* last lookup the builder holds these locks, the shards it builds tasks   *)
(* for are the locked ones, which are still the shards of the relation,    *)
(* and every lookup and every task is for one of them.                     *)
(***************************************************************************)
C30_ShardsLockedBeforePlacementLookup ==
    builder.fn # "none"
        => /\ Cardinality(ShardLockCalls) <= 1
           /\ \A j \in PlacementLookups : \E k \in ShardLockCalls : k < j
           /\ \A k \in ShardLockCalls :
                 /\ builderCalls[k].arg = ShareLock
                 /\ builderCalls[k].shards = builder.shardIntervalList
                 /\ Range(builderCalls[k].shards) = Range(pgDistShard[builder.relationId])
                 /\ \A shardId \in Range(builderCalls[k].shards) :
                       /\ HoldsShareLock(shardId)
                       /\ LockGranted(shardLocks, "builder", shardId)
                 /\ \A j \in PlacementLookups :
                       builderCalls[j].arg \in Range(builderCalls[k].shards)
           /\ \A t \in DOMAIN builder.taskList :
                 /\ builder.taskList[t].anchorShardId = builder.shardIntervalList[t]
                 /\ HoldsShareLock(builder.taskList[t].anchorShardId)
           /\ builder.pc = "returned"
                 => /\ ShardLockCalls # {}
                    /\ Len(builder.taskList) = Cardinality(PlacementLookups)

C30_Witness ==
    /\ builder.fn = "InterShardDDLTaskList"
    /\ builder.pc = "returned"
    /\ Len(builder.taskList) = MaxShards
    /\ Cardinality(PlacementLookups) = MaxShards
    /\ \E l \in shardLocks : l.holder = "writer" /\ l.shardId \in Range(builder.rightShardList)
    /\ \E t \in DOMAIN builder.taskList :
          Len(builder.taskList[t].taskPlacementList) < NumWorkers

(***************************************************************************)
(* The executor of a job: sequential or parallel.                          *)
(***************************************************************************)
\* the shard tasks the running job has been through so far, in the order it ran them
TasksOfRunningJob ==
    LET start == CHOOSE i \in JobStartEvents : \A j \in JobStartEvents : j <= i
    IN SelectSeq(SubSeq(history, start, Len(history)), LAMBDA e : e.ev = "task")

\* the tasks were run one after another in the order of the list
RanInListOrder == \A k \in DOMAIN TasksOfRunningJob : TasksOfRunningJob[k].arg = k

FirstRemainingTask == { t \in RemainingTasks : \A u \in RemainingTasks : t <= u }

(***************************************************************************)
(* C31: while the tasks of a job are run, the job that is not a concurrent *)
(* index build runs them one at a time in list order exactly when its      *)
(* executeSequentially flag is set or the multi-shard connection type of   *)
(* the session is sequential, and otherwise any remaining task may run     *)
(* next; a concurrent index job always runs them one at a time in list     *)
(* order, under the bare commit protocol.                                  *)
(***************************************************************************)
C31_ExecutionModeOfJob ==
    (pc = "tasks" /\ RemainingTasks # {})
        => /\ ~Job.concurrentIndexCmd
                 => IF Job.executeSequentially
                       \/ MultiShardConnectionType = SEQUENTIAL_CONNECTION
                    THEN SendableTasks = FirstRemainingTask /\ RanInListOrder
                    ELSE SendableTasks = RemainingTasks
           /\ Job.concurrentIndexCmd
                 => /\ SendableTasks = FirstRemainingTask
                    /\ RanInListOrder
                    /\ MultiShardCommitProtocol = COMMIT_PROTOCOL_BARE

C31_Witness ==
    /\ pc = "tasks"
    /\ ~Job.concurrentIndexCmd
    /\ ~Job.executeSequentially
    /\ MultiShardConnectionType = SEQUENTIAL_CONNECTION
    /\ Cardinality(RemainingTasks) > 1
    /\ TasksOfRunningJob # << >>

(***************************************************************************)
(* The task ids of a task list.                                            *)
(***************************************************************************)
\* the task lists a planner call has built, each with the relation whose shards it
\* was built from
PlannedTaskLists ==
    IF planStmt.type = "VacuumStmt"
    THEN { [relationId |-> PgClass[planStmt.rels[1].relation],
            taskList |-> planResult.taskList] }
    ELSE IF planStmt.type \in {"AlterTableStmt", "RenameStmt"}
    THEN { [relationId |-> planResult.ddlJobs[j].targetRelationId,
            taskList |-> planResult.ddlJobs[j].taskList] : j \in DOMAIN planResult.ddlJobs }
    ELSE {}

(***************************************************************************)
(* C32: in every task list built for a job by DDLTaskList,                 *)
(* InterShardDDLTaskList or VacuumTaskList the k-th task has task id k and *)
(* the k-th shard of the relation as its anchor shard, so that the task    *)
(* ids are 1..N in list order and no two tasks have the same task id or    *)
(* the same anchor shard.                                                  *)
(***************************************************************************)
C32_TaskIdsConsecutiveInShardOrder ==
    \A built \in PlannedTaskLists :
        LET tasks == built.taskList
        IN /\ \A k \in DOMAIN tasks :
                 /\ tasks[k].taskId = k
                 /\ tasks[k].anchorShardId = pgDistShard[built.relationId][k]
           /\ \A k, m \in DOMAIN tasks :
                 k # m => /\ tasks[k].taskId # tasks[m].taskId
                          /\ tasks[k].anchorShardId # tasks[m].anchorShardId
           /\ { tasks[k].taskId : k \in DOMAIN tasks } = 1..Len(tasks)

C32_Witness ==
    /\ planStmt.type = "AlterTableStmt"
    /\ \E built \in PlannedTaskLists :
          /\ Len(built.taskList) = MaxShards
          /\ built.taskList[MaxShards].relationShardList # NIL
          /\ built.taskList[MaxShards].taskId = MaxShards

(***************************************************************************)
(* Commands while DDL propagation is disabled.                             *)
(***************************************************************************)
\* the steps that only a command with planned jobs goes through
StepsOfPlannedJobs ==
    {"postProcessCommitted", "postProcessInvalid", "validate", "execute", "metadata",
     "tasks", "jobDone"}

AltersDistributedTable ==
    /\ IsA(parsetree, "AlterTableStmt")
    /\ parsetree.relation \in {"orders", "warehouses", "events"}

DropsDistributionColumn ==
    \E i \in DOMAIN parsetree.cmds :
        /\ parsetree.cmds[i].subtype = "AT_DropColumn"
        /\ parsetree.cmds[i].name = "dist_col"

(***************************************************************************)
(* C33: while DDL propagation is disabled no command plans or executes a   *)
(* DDLJob and nothing of a job is sent to a worker, the processing of a    *)
(* concurrent index build after the local command is skipped, and an       *)
(* ALTER TABLE of a distributed table is rejected by Citus only for a DROP *)
(* COLUMN of the distribution column, before the local command; any other  *)
(* error is the local command's own.                                       *)
(***************************************************************************)
C33_NothingPlannedWhilePropagationDisabled ==
    ~EnableDDLPropagation
        => /\ ddlJobs = NIL
           /\ pc \notin StepsOfPlannedJobs
           /\ JobStartEvents = {}
           /\ { i \in DOMAIN history : SentToWorkers(history[i]) } = {}
           /\ FlipsOfValidity = {}
           /\ EventsOf("CommitTransactionCommand") = {}
           /\ AltersDistributedTable
                 => /\ \A e \in EventsOf("ereport") :
                          history[e].arg \in {"ERR_DROP_PARTITION_COLUMN",
                                              "ERR_LOCAL_COMMAND_FAILED"}
                    /\ commandError = "ERR_DROP_PARTITION_COLUMN"
                          => DropsDistributionColumn /\ FailedBeforeLocalCommand
                    /\ (DropsDistributionColumn /\ parsetree.relation # "warehouses")
                          => commandError = "ERR_DROP_PARTITION_COLUMN"

C33_Witness ==
    /\ ~EnableDDLPropagation
    /\ AltersDistributedTable
    /\ parsetree.relation = "orders"
    /\ \E i \in DOMAIN parsetree.cmds : parsetree.cmds[i].subtype = "AT_AddConstraint"
    /\ pc = "committed"
    /\ LocalApplyEvents # {}

(***************************************************************************)
(* ALTER TABLE ... ATTACH PARTITION, the four cases of the comment above   *)
(* ProcessAlterTableStmtAttachPartition (lines 922-941).                   *)
(***************************************************************************)
AttachesOnePartition ==
    /\ IsA(parsetree, "AlterTableStmt")
    /\ Len(parsetree.cmds) = 1
    /\ parsetree.cmds[1].subtype = "AT_AttachPartition"
    /\ parsetree.relation \in DOMAIN PgClass \ {"orders_idx"}
    /\ parsetree.cmds[1].def.name \in DOMAIN PgClass

AttachParent == PgClass[parsetree.relation]
AttachedPartition == PgClass[parsetree.cmds[1].def.name]

\* the tables that are distributed when the statement arrives
DistributedBefore ==
    { PgClass[name] : name \in {"orders", "warehouses", "events", "items",
                                "archive_ft", "orders_2019"} }

AfterAttachStep ==
    pc \notin {"idle", "planned", "attach", "error", "aborted"}

\* the planned job pairs the i-th shard of the parent with the i-th shard of the partition
PropagatedAsInterShardTasks ==
    /\ Len(ddlJobs) = 1
    /\ ddlJobs[1].targetRelationId = AttachParent
    /\ Len(ddlJobs[1].taskList) = Len(pgDistShard[AttachParent])
    /\ \A k \in DOMAIN ddlJobs[1].taskList :
          ddlJobs[1].taskList[k].relationShardList =
              << [relationId |-> AttachParent, shardId |-> pgDistShard[AttachParent][k]],
                 [relationId |-> AttachedPartition,
                  shardId |-> pgDistShard[AttachedPartition][k]] >>

NothingDoneForAttach ==
    /\ ddlJobs = NIL
    /\ WorkerCommunication = {}
    /\ EventsOf("CreateDistributedTable") = {}
    /\ commandError \in {"none", "ERR_LOCAL_COMMAND_FAILED"}
    /\ AttachParent \notin DOMAIN pgDistPartition
    /\ AttachedPartition \notin DOMAIN pgDistPartition

AttachFailsWithError ==
    /\ ddlJobs = NIL
    /\ WorkerCommunication = {}
    /\ pc \notin {"applied", "postProcessed", "committed"}
    /\ commandError \in {"none", "ERR_LOCAL_COMMAND_FAILED",
                         "ERR_DISTRIBUTED_PARTITION_OF_LOCAL_TABLE"}
    /\ pc = "aborted" => commandError # "none"

PartitionDistributedAfterLocalCommand ==
    /\ ddlJobs = NIL
    /\ EventsOf("task") = {}
    /\ JobStartEvents = {}
    /\ commandError \in {"none", "ERR_LOCAL_COMMAND_FAILED"}
    /\ ~AfterAttachStep => AttachedPartition \notin DOMAIN pgDistPartition
    /\ AfterAttachStep
          => /\ AttachedPartition \in DOMAIN pgDistPartition
             /\ pgDistPartition[AttachedPartition] = DISTRIBUTE_BY_HASH
             /\ Len(pgDistShard[AttachedPartition]) = Len(pgDistShard[AttachParent])
             /\ \E a \in LocalApplyEvents, c \in EventsOf("CreateDistributedTable") :
                   a < c /\ history[c].arg = AttachedPartition

AttachPropagatedOrRejected ==
    pc # "idle"
       => IF TablesColocated(AttachParent, AttachedPartition)
          THEN (pc \notin {"error", "aborted"} \/ LocalApplyEvents # {})
                   => PropagatedAsInterShardTasks
          ELSE RejectedAtPlanningWith({"ERR_NON_COLOCATED_PARTITION"})

AttachCaseOutcome(propagating) ==
    AttachesOnePartition
       => IF AttachParent \notin DistributedBefore
          THEN IF AttachedPartition \notin DistributedBefore
               THEN NothingDoneForAttach
               ELSE AttachFailsWithError
          ELSE IF AttachedPartition \notin DistributedBefore
               THEN PartitionDistributedAfterLocalCommand
               ELSE propagating => AttachPropagatedOrRejected

(***************************************************************************)
(* C34 as stated: the four cases hold for every ATTACH PARTITION.          *)
(***************************************************************************)
C34_AttachPartitionFourCasesAlways ==
    AttachCaseOutcome(TRUE)

(***************************************************************************)
(* C34: ALTER TABLE ... ATTACH PARTITION follows the four documented       *)
(* cases.  Neither relation distributed: nothing is done.  Parent not      *)
(* distributed, partition distributed: the command fails with an error.    *)
(* Parent distributed, partition not: no task is generated and the         *)
(* partition is distributed like the parent after the local command.  Both *)
(* distributed, while DDL propagation is enabled: the command is           *)
(* propagated as inter-shard tasks, and rejected before the local command  *)
(* if the partition is not colocated with the parent.                      *)
(***************************************************************************)
C34_AttachPartitionFourCases ==
    AttachCaseOutcome(EnableDDLPropagation)

C34_Witness ==
    /\ AttachesOnePartition
    /\ EnableDDLPropagation
    /\ AttachParent \in DistributedBefore
    /\ AttachedPartition \in DistributedBefore
    /\ TablesColocated(AttachParent, AttachedPartition)
    /\ pc = "committed"
    /\ PropagatedAsInterShardTasks
    /\ EventsOf("task") # {}

(***************************************************************************)
(* C35: when a top-level command has ended, committed or aborted, the      *)
(* foreign-key dirty flag is false, so the next command starts with a      *)
(* clear flag.                                                             *)
(***************************************************************************)
C35_FlagClearWhenCommandEnds ==
    CommandEnded => ~shouldInvalidateForeignKeyGraph

\* a command marked the graph, was aborted before the flush, and left the flag set
C35_MarkSurvivesAbort ==
    /\ pc = "aborted"
    /\ MarkEvents # {}
    /\ EventsOf("InvalidateForeignKeyGraphForDDL") = {}
    /\ shouldInvalidateForeignKeyGraph

(***************************************************************************)
(* The saved multi-shard commit protocol.                                  *)
(***************************************************************************)
SaveEvents == EventsOf("SaveCommitProtocol")

AnalyzeOnly ==
    IsA(parsetree, "VacuumStmt") /\ VACOPT_VACUUM \notin parsetree.options

UserCommitProtocols == {COMMIT_PROTOCOL_1PC, COMMIT_PROTOCOL_2PC}

\* one step of a statement, as far as the commit protocol goes
CommitProtocolStep ==
    /\ Cardinality(SaveEvents') <= 1
    /\ \A e \in SaveEvents' : history'[e].ok
    /\ IF SaveEvents' # SaveEvents
       THEN /\ MultiShardCommitProtocol \in UserCommitProtocols
            /\ SavedMultiShardCommitProtocol' = MultiShardCommitProtocol
            /\ MultiShardCommitProtocol' = COMMIT_PROTOCOL_BARE
            /\ \/ IsA(parsetree, "VacuumStmt") /\ VACOPT_VACUUM \in parsetree.options
               \/ currentJob # 0 /\ Job.concurrentIndexCmd
       ELSE commitProtocol' # commitProtocol
               => /\ MultiShardCommitProtocol' = SavedMultiShardCommitProtocol
                  /\ SavedMultiShardCommitProtocol' = COMMIT_PROTOCOL_BARE
                  /\ pc' \in {"committed", "aborted"}
    /\ AnalyzeOnly' => UNCHANGED commitProtocol
    /\ CommandEnded'
          => /\ SavedMultiShardCommitProtocol' = COMMIT_PROTOCOL_BARE
             /\ MultiShardCommitProtocol' \in UserCommitProtocols

(***************************************************************************)
(* C36: the prior multi-shard commit protocol is saved at most once per    *)
(* statement, and only by a VACUUM of a distributed table or a             *)
(* concurrent-index job: the value saved is the protocol that was in force *)
(* before the statement, never 'bare', nothing was saved before when it is *)
(* saved, and it stays until the end of the transaction restores it; an    *)
(* ANALYZE without VACUUM never changes the protocol.                      *)
(***************************************************************************)
C36_CommitProtocolSavedOnce ==
    [][CommitProtocolStep]_vars

C36_Witness ==
    /\ IsA(parsetree, "VacuumStmt")
    /\ pc = "done"
    /\ Cardinality(EventsOf("ExecuteModifyTasksWithoutResults")) >= 2
    /\ Cardinality(SaveEvents) = 1
    /\ MultiShardCommitProtocol = COMMIT_PROTOCOL_BARE
    /\ SavedMultiShardCommitProtocol = COMMIT_PROTOCOL_2PC

(***************************************************************************)
(* The shards InterShardDDLTaskList covers.                                *)
(***************************************************************************)
LeftShardList == pgDistShard[taskCall.leftRelationId]

RightShardList == pgDistShard[taskCall.rightRelationId]

RightIsReferenceTable == pgDistPartition[taskCall.rightRelationId] = DISTRIBUTE_BY_NONE

\* the i-th cell of the right list the loop walks
RightShardAt(i) == IF RightIsReferenceTable THEN RightShardList[1] ELSE RightShardList[i]

\* the first n left shards are each the anchor of one task, the i-th paired with the
\* i-th right shard
CoversLeftShards(n) ==
    /\ Len(taskList) = n
    /\ \A i \in 1..n :
          /\ Cardinality({ k \in DOMAIN taskList :
                              taskList[k].anchorShardId = LeftShardList[i] }) = 1
          /\ taskList[i].anchorShardId = LeftShardList[i]
          /\ taskList[i].relationShardList =
                 << [relationId |-> taskCall.leftRelationId, shardId |-> LeftShardList[i]],
                    [relationId |-> taskCall.rightRelationId, shardId |-> RightShardAt(i)] >>

\* the length of the shorter of the two lists the loop walks
PairedShardCount ==
    IF RightIsReferenceTable \/ Len(RightShardList) >= Len(LeftShardList)
    THEN Len(LeftShardList) ELSE Len(RightShardList)

(***************************************************************************)
(* C37 as stated: every shard of the left relation is the anchor of        *)
(* exactly one task, whatever the shard counts of the two relations.       *)
(***************************************************************************)
C37_EveryLeftShardCovered ==
    taskCall.fn = "InterShardDDLTaskList" => CoversLeftShards(Len(LeftShardList))

(***************************************************************************)
(* C37: InterShardDDLTaskList pairs the shards of the two relations        *)
(* positionally as far as both lists go: the i-th left shard is the anchor *)
(* of exactly one task, paired with the i-th right shard, for every i up   *)
(* to the length of the shorter list.  Every left shard is covered when    *)
(* the right relation is a reference table or has at least as many shards  *)
(* as the left one; otherwise the left shards beyond the shard count of    *)
(* the right relation get no task.                                         *)
(***************************************************************************)
C37_LeftShardsCoveredUpToShorterList ==
    taskCall.fn = "InterShardDDLTaskList" => CoversLeftShards(PairedShardCount)

C37_Witness ==
    /\ taskCall.fn = "InterShardDDLTaskList"
    /\ ~RightIsReferenceTable
    /\ Len(LeftShardList) = MaxShards
    /\ Len(RightShardList) = MaxShards - 1
    /\ Len(taskList) = MaxShards - 1
    /\ \A k \in DOMAIN taskList : taskList[k].anchorShardId # LeftShardList[MaxShards]

(***************************************************************************)
(* When the metadata workers are told about the command of a job.          *)
(***************************************************************************)
TaskEvents == EventsOf("task")

FailedTasks == { t \in TaskEvents : ~history[t].ok }

\* every task of the running job has succeeded before position m of the history
AllTasksSucceededBefore(m) ==
    \A taskId \in DOMAIN Job.taskList :
        \E t \in TaskEvents : t < m /\ history[t].arg = taskId /\ history[t].ok

\* the command text has reached the metadata workers
CommandBroadcast ==
    { m \in MetadataSends :
        /\ history[m].ok
        /\ IF history[m].ev = "SendBareCommandListToWorkers"
           THEN Job.commandString \in Range(history[m].arg)
           ELSE history[m].arg = Job.commandString }

(***************************************************************************)
(* C38: a job that is not a concurrent index build tells the metadata      *)
(* workers before it executes its first shard task; a concurrent index job *)
(* tells them only after every one of its shard tasks has succeeded, so    *)
(* that after a failed shard task no metadata worker has received the      *)
(* command.                                                                *)
(***************************************************************************)
C38_MetadataBroadcastOrder ==
    currentJob # 0
        => IF ~Job.concurrentIndexCmd
           THEN /\ \A m \in MetadataSends, t \in TaskEvents : m < t
                /\ (TaskEvents # {} /\ ShouldSyncTableMetadata(Job.targetRelationId))
                       => CommandBroadcast # {}
           ELSE /\ \A m \in MetadataSends : AllTasksSucceededBefore(m)
                /\ FailedTasks # {} => MetadataSends = {}
                /\ (pc \in {"jobDone", "done", "committed"}
                       /\ ShouldSyncTableMetadata(Job.targetRelationId))
                       => CommandBroadcast # {}

C38_Witness ==
    /\ currentJob # 0
    /\ Job.concurrentIndexCmd
    /\ Len(Job.taskList) > 1
    /\ pc = "committed"
    /\ CommandBroadcast # {}
    /\ \A m \in MetadataSends : AllTasksSucceededBefore(m)

(***************************************************************************)
(* SpecCall: CALL statements going through multi_ProcessUtility (lines     *)
(* 284-313).  The body of a procedure runs inside standard_ProcessUtility; *)
(* it may issue further CALL statements, return, or raise an error.  An    *)
(* error leaves every CALL it passes through PG_CATCH, until the body of   *)
(* an enclosing procedure handles it or it reaches the top level.          *)
(***************************************************************************)
MaxCallDepth == 3
MaxCalls == 5

CallsBegun == Len(callStack) + Len(callLog)

CallFrame(before) == [before |-> before]

ProcessedCall(frame, raised) ==
    [before |-> frame.before, after |-> StoredProcedureLevel', raised |-> raised]

InnermostCall == callStack[Len(callStack)]

EnclosingCalls == SubSeq(callStack, 1, Len(callStack) - 1)

\* mutant: the level is left as it is when the CALL raises
LevelAfterCatch_NotRestored(level) == level

\* line 306
LevelAfterCatch(level) == level - 1

InitCall ==
    /\ ClusterCatalog
    /\ TasksIdle
    /\ LockIdle
    /\ SessionIdle
    /\ PlanIdle
    /\ UtilityIdle

\* line 295, and the entry into standard_ProcessUtility (line 299)
CallStmtBegins ==
    /\ ~unwinding
    /\ Len(callStack) < MaxCallDepth
    /\ CallsBegun < MaxCalls
    /\ StoredProcedureLevel' = StoredProcedureLevel + 1
    /\ callStack' = Append(callStack, CallFrame(StoredProcedureLevel))
    /\ UNCHANGED <<catalogVars, taskVars, lockVars, sessionVars, planVars, commandVars,
                   unwinding, callLog>>

\* lines 299-302: standard_ProcessUtility returns
CallStmtReturns ==
    /\ ~unwinding
    /\ callStack # << >>
    /\ StoredProcedureLevel' = StoredProcedureLevel - 1
    /\ callStack' = EnclosingCalls
    /\ callLog' = Append(callLog, ProcessedCall(InnermostCall, FALSE))
    /\ UNCHANGED <<catalogVars, taskVars, lockVars, sessionVars, planVars, commandVars,
                   unwinding>>

\* an error is raised while the body of the innermost procedure runs
RaiseInProcedure ==
    /\ ~unwinding
    /\ callStack # << >>
    /\ unwinding' = TRUE
    /\ UNCHANGED <<catalogVars, taskVars, lockVars, sessionVars, planVars, commandVars,
                   StoredProcedureLevel, callStack, callLog>>

\* lines 304-308: the error leaves standard_ProcessUtility and is thrown again
CallStmtCatches ==
    /\ unwinding
    /\ callStack # << >>
    /\ StoredProcedureLevel' = LevelAfterCatch(StoredProcedureLevel)
    /\ callStack' = EnclosingCalls
    /\ callLog' = Append(callLog, ProcessedCall(InnermostCall, TRUE))
    /\ UNCHANGED <<catalogVars, taskVars, lockVars, sessionVars, planVars, commandVars,
                   unwinding>>

\* the error of a nested CALL is handled by the body of the enclosing procedure
ProcedureHandlesError ==
    /\ unwinding
    /\ callStack # << >>
    /\ callLog # << >>
    /\ callLog[Len(callLog)].raised
    /\ callLog[Len(callLog)].before = StoredProcedureLevel
    /\ unwinding' = FALSE
    /\ UNCHANGED <<catalogVars, taskVars, lockVars, sessionVars, planVars, commandVars,
                   StoredProcedureLevel, callStack, callLog>>

\* the error reaches the top level and the session goes on
ErrorReachesTopLevel ==
    /\ unwinding
    /\ callStack = << >>
    /\ unwinding' = FALSE
    /\ UNCHANGED <<catalogVars, taskVars, lockVars, sessionVars, planVars, commandVars,
                   StoredProcedureLevel, callStack, callLog>>

NextCall ==
    \/ CallStmtBegins
    \/ CallStmtReturns
    \/ RaiseInProcedure
    \/ CallStmtCatches
    \/ ProcedureHandlesError
    \/ ErrorReachesTopLevel

SpecCall == InitCall /\ [][NextCall]_vars

(***************************************************************************)
(* C39: the stored-procedure nesting level is balanced.  After a CALL has  *)
(* been processed, whether it returned or raised an error, the level is    *)
(* what it was before the CALL; while the CALL is the innermost one being  *)
(* processed the level is exactly one higher than before it, nested CALLs  *)
(* included; the level is never negative.                                  *)
(***************************************************************************)
C39_NestingLevelBalanced ==
    /\ StoredProcedureLevel >= 0
    /\ \A k \in DOMAIN callLog : callLog[k].after = callLog[k].before
    /\ callStack # << >> => StoredProcedureLevel = InnermostCall.before + 1
    /\ \A k \in DOMAIN callStack :
          k < Len(callStack) => callStack[k + 1].before = callStack[k].before + 1
    /\ callStack = << >> => StoredProcedureLevel = 0

C39_Witness ==
    /\ callStack = << >>
    /\ ~unwinding
    /\ StoredProcedureLevel = 0
    /\ \E k \in DOMAIN callLog : callLog[k].raised /\ callLog[k].before = MaxCallDepth - 1
    /\ \E k \in DOMAIN callLog : ~callLog[k].raised /\ callLog[k].before = 1

====
